---- MODULE Spec2Model ----
(***************************************************************************)
(* PhishX core: circuit breaker (backend/circuit_breaker.py), admission    *)
(* control (backend/rate_limiter.py), the Celery task pipeline             *)
(* (backend/tasks.py, backend/task_queue.py, backend/app_new.py), the     *)
(* risk engines (scanner/risk_engine.py, backend/scanner/risk_engine.py)   *)
(* and anomaly detection (backend/anomaly_detection.py,                    *)
(* backend/anomaly_integration.py).                                        *)
(*                                                                         *)
(* Each subsystem has its own specification (SpecCB, SpecRL, SpecPipe,     *)
(* SpecIngest, SpecRisk, SpecAnomaly) over the one set of variables; a     *)
(* specification leaves the other subsystems' variables unchanged.         *)
(*                                                                         *)
(* Calls to the structured log sink are external and have no effect on     *)
(* the modelled state.  Time is a discrete clock in seconds.               *)
(***************************************************************************)
EXTENDS Integers, Sequences, FiniteSets, TLC

(***************************************************************************)
(* Bounds                                                                  *)
(***************************************************************************)
\* breaker configuration supplied by the caller of CircuitBreaker(...)
failure_threshold == 2
recovery_timeout == 2
success_threshold == 2
\* number of concurrent callers of one breaker, calls each may make, clock
NumCallers == 2
MaxCallsPerCaller == 2
MaxTime == 4

\* rate limiter: requests, the count N of a limit "N/<unit>", clock advances
NumRequests == 3
LimitCount == 2
MaxAdvances == 2

\* pipeline: ingestion requests (all from one network address, within one
\* minute), redeliveries of an unacknowledged task
NumMsgs == 3
MaxRedeliveries == 1

\* anomaly engine: capacity of a feature history
\* (StatisticalAnomalyDetector(window_size)), messages analysed in one run
window_size == 10
MaxAnalyzed == 3

Callers == 1..NumCallers
Msgs == 1..NumMsgs
\* the workers are followed on the tasks of the first message: tasks and rows
\* are keyed by message identifier and those of different messages share no
\* state
PipeMsgs == {1}
NoTime == 0 - 1
Requests == 1..NumRequests
Scopes == {"ip", "key", "tenant"}
NoTtl == 0 - 1
\* amounts by which the rate limiter's clock advances in one step (seconds)
AdvanceSteps == {30, 86400}

VARIABLES
  \* ---- CircuitBreaker fields (circuit_breaker.py:73-87)
  state, failure_count, success_count, last_failure_time, opened_time,
  total_calls, successful_calls, failed_calls, rejected_calls,
  \* ---- clock and callers of CircuitBreaker.call
  now,            \* datetime.utcnow(), in seconds
  pc,             \* per caller: "idle" or "running" (inside the wrapped function)
  outcome,        \* per caller: how its last call() ended
  call_seq,       \* per caller: number of call() invocations begun
  admitted_in,    \* per caller: breaker state when its running call was admitted
  invocations,    \* number of invocations of the wrapped function
  nlp_reply,     \* per caller: what call_nlp_service gave its caller last
  breakers,       \* names registered in _breakers (circuit_breaker.py:264)
  \* ---- history variables of the breaker
  open_since,     \* clock value of the last transition into OPEN
  streak,         \* failed calls completed since the last successful one
  ho_successes,   \* successes recorded since the breaker entered HALF_OPEN
  opened_from,    \* the state the last transition into OPEN left
  rejected_since_open, \* a call() was rejected since the last transition into OPEN
  \* ---- self._lock (threading.RLock): the caller holding it, 0 when free
  lock

cbVars == <<state, failure_count, success_count, last_failure_time, opened_time,
            total_calls, successful_calls, failed_calls, rejected_calls,
            now, pc, outcome, call_seq, admitted_in, invocations, nlp_reply,
            breakers,
            open_since, streak, ho_successes, opened_from, rejected_since_open,
            lock>>

VARIABLES
  \* ---- the Redis counter store used by the rate-limit decorators
  redis_val,      \* per key: the counter (0: the key does not exist)
  redis_ttl,      \* per key: seconds until expiry (NoTtl: no expiry set)
  rl_now,         \* the clock of the rate limiter, in seconds
  advances,       \* number of clock advances so far
  \* ---- requests going through a rate-limit wrapper
  req_pc,         \* "new", "expire", "handler", "rejected", "stopped"
  req_scope,      \* which decorator the request goes through
  current,        \* the value INCR returned to the request
  status,         \* HTTP status of the response (0: none yet)
  \* ---- history variables of the rate limiter
  key_epoch,      \* per key: number of times the key has expired
  key_first,      \* per key: clock value of the INCR that created the key
  req_epoch,      \* per request: key_epoch of its key at its INCR
  req_at,         \* per request: clock value at its INCR
  req_first       \* per request: key_first of its key right after its INCR

rlVars == <<redis_val, redis_ttl, rl_now, advances, req_pc, req_scope, current,
            status, key_epoch, key_first, req_epoch, req_at, req_first>>

VARIABLES
  \* ---- ingestion (app_new.ingest_email); the message identifier is m
  ingested,       \* per message: ingest_email has accepted it
  msg_priority,   \* payload.priority: "normal" or "high"
  msg_urls,       \* whether payload.urls is non-empty
  msg_tenant,     \* the tenant the message belongs to
  flagged,        \* DDoSProtection.detect_suspicious_pattern returned True
  \* ---- the process_email task of a message
  pe_state,       \* "absent", "queued", "nlp_wait", "url_wait",
                  \* "persist_enqueued", "succeeded", "failed"
  pe_retries,     \* self.request.retries
  pe_queue,       \* the queue the task was published to
  pe_priority,    \* the priority it was published with
  pe_countdown,   \* countdown of the last self.retry
  pe_attempts,    \* history: number of times the task body was entered
  cold_threshold, warm_threshold,   \* locals of the running attempt
  text_score,     \* local text_score, in hundredths
  pe_nlp_result,  \* local nlp_result of the running attempt
  pe_risk_eval,   \* local risk_eval of the running attempt
  pe_category,    \* local category of the running attempt
  abort_cause,    \* why the last aborted attempt was aborted
  \* ---- broker queues and the database
  pd_queue,       \* persist_decision tasks in queue "emails"
  ed_queue,       \* enforce_decision tasks in queue "enforcement"
  email_decisions,\* per message identifier: the rows of email_decisions
  soc_alerts,     \* per message identifier: the rows of soc_alerts
  audit_log,      \* per message identifier: number of audit_log rows
  enforced,       \* per message: enforce_decision runs that found the row
  not_found,      \* per message: enforce_decision runs that found no row
  redeliveries    \* tasks redelivered after a lost acknowledgement

pipeVars == <<ingested, msg_priority, msg_urls, msg_tenant, flagged,
              pe_state, pe_retries, pe_queue, pe_priority, pe_countdown,
              pe_attempts, pe_nlp_result, pe_risk_eval,
              cold_threshold, warm_threshold, text_score, pe_category,
              abort_cause, pd_queue, ed_queue, email_decisions, soc_alerts,
              audit_log, enforced, not_found, redeliveries>>

VARIABLES
  \* ---- inputs of one risk evaluation (scores in hundredths)
  re_url_results,     \* url_results: list of per-URL heuristic results
  re_text_findings,   \* text_findings: heuristic score and signals
  re_malware_hits,    \* malware_hits
  re_text_ml_score,   \* text_ml_score
  re_url_ml_score,    \* url_ml_score (the URL fragment's score)
  \* ---- what the two engines return for them
  re_scanner_eval,          \* scanner/risk_engine.calculate_risk
  re_backend_eval,  \* backend/scanner/risk_engine.calculate_risk
  re_rescored       \* history: the input the last evaluation raised

riskVars == <<re_url_results, re_text_findings, re_malware_hits,
              re_text_ml_score, re_url_ml_score, re_scanner_eval, re_backend_eval,
              re_rescored>>

VARIABLES
  \* ---- AnomalyDetectionEngine and its detectors (anomaly_detection.py)
  feature_history,    \* StatisticalAnomalyDetector: per feature, the deque
  sender_history,     \* BehavioralAnomalyDetector: per sender, the deque
  recipient_history,  \* BehavioralAnomalyDetector: per recipient, the deque
  anomalies_detected, total_analyzed,
  \* ---- the last call of analyze
  an_email,           \* its email_data
  an_pattern,         \* what the pattern detector returned for it
  an_statistical,     \* what the statistical detector returned for it
  an_behavioral,      \* what the behavioral detector returned for it
  an_result,          \* what analyze returned, or the exception it raised
  an_info,            \* what detect_anomalies returned to process_email
  an_escalated,       \* should_escalate_anomaly(an_info), when it was asked
  \* ---- history variables of the anomaly engine
  an_arrived,         \* per feature: every sample ever passed to add_sample
  an_base             \* total_analyzed of the baseline the run started from

anVars == <<feature_history, sender_history, recipient_history,
            anomalies_detected, total_analyzed, an_email, an_pattern,
            an_statistical, an_behavioral, an_result, an_info, an_escalated,
            an_arrived, an_base>>

vars == <<cbVars, rlVars, pipeVars, riskVars, anVars>>

(***************************************************************************)
(* Circuit breaker                                                         *)
(***************************************************************************)
CB_Init ==
  /\ state = "CLOSED"
  /\ failure_count = 0
  /\ success_count = 0
  /\ last_failure_time = NoTime
  /\ opened_time = NoTime
  /\ total_calls = 0
  /\ successful_calls = 0
  /\ failed_calls = 0
  /\ rejected_calls = 0
  /\ now = 0
  /\ pc = [c \in Callers |-> "idle"]
  /\ outcome = [c \in Callers |-> "none"]
  /\ call_seq = [c \in Callers |-> 0]
  /\ admitted_in = [c \in Callers |-> "none"]
  /\ invocations = 0
  /\ nlp_reply = [c \in Callers |-> [none |-> TRUE]]
  /\ breakers = {}
  /\ open_since = NoTime
  /\ streak = 0
  /\ ho_successes = 0
  /\ opened_from = "none"
  /\ rejected_since_open = FALSE
  /\ lock = 0

\* mutant: the recovery period must be exceeded, not just reached
should_attempt_reset_strict ==
  IF opened_time = NoTime
    THEN FALSE
    ELSE now - opened_time > recovery_timeout

\* mutant: the recovery period is never waited for
should_attempt_reset_always ==
  opened_time # NoTime

should_attempt_reset ==
  IF opened_time = NoTime
    THEN FALSE
    ELSE now - opened_time >= recovery_timeout

\* mutant: a success while CLOSED leaves the failure count alone
on_success_no_reset ==
  /\ total_calls' = total_calls + 1
  /\ successful_calls' = successful_calls + 1
  /\ UNCHANGED <<failed_calls, rejected_calls, opened_time>>
  /\ IF state = "HALF_OPEN"
       THEN /\ success_count' = success_count + 1
            /\ IF success_count' >= success_threshold
                 THEN /\ state' = "CLOSED"
                      /\ failure_count' = 0
                      /\ last_failure_time' = NoTime
                 ELSE UNCHANGED <<state, failure_count, last_failure_time>>
       ELSE UNCHANGED <<success_count, state, last_failure_time, failure_count>>

\* mutant: closes one success late
on_success_late ==
  /\ total_calls' = total_calls + 1
  /\ successful_calls' = successful_calls + 1
  /\ UNCHANGED <<failed_calls, rejected_calls, opened_time>>
  /\ IF state = "HALF_OPEN"
       THEN /\ success_count' = success_count + 1
            /\ IF success_count' > success_threshold
                 THEN /\ state' = "CLOSED"
                      /\ failure_count' = 0
                      /\ last_failure_time' = NoTime
                 ELSE UNCHANGED <<state, failure_count, last_failure_time>>
       ELSE /\ UNCHANGED <<success_count, state, last_failure_time>>
            /\ IF state = "CLOSED"
                 THEN failure_count' = 0
                 ELSE UNCHANGED failure_count

\* CircuitBreaker._on_success, under self._lock
on_success ==
  /\ total_calls' = total_calls + 1
  /\ successful_calls' = successful_calls + 1
  /\ UNCHANGED <<failed_calls, rejected_calls, opened_time>>
  /\ IF state = "HALF_OPEN"
       THEN /\ success_count' = success_count + 1
            /\ IF success_count' >= success_threshold
                 THEN /\ state' = "CLOSED"
                      /\ failure_count' = 0
                      /\ last_failure_time' = NoTime
                 ELSE UNCHANGED <<state, failure_count, last_failure_time>>
       ELSE /\ UNCHANGED <<success_count, state, last_failure_time>>
            /\ IF state = "CLOSED"
                 THEN failure_count' = 0
                 ELSE UNCHANGED failure_count

\* mutant: a failure while HALF_OPEN reopens without restarting the
\* recovery period
on_failure_no_restart ==
  /\ total_calls' = total_calls + 1
  /\ failed_calls' = failed_calls + 1
  /\ failure_count' = failure_count + 1
  /\ last_failure_time' = now
  /\ UNCHANGED <<successful_calls, rejected_calls, success_count>>
  /\ IF state = "HALF_OPEN"
       THEN /\ state' = "OPEN"
            /\ UNCHANGED opened_time
       ELSE IF state = "CLOSED" /\ failure_count' >= failure_threshold
              THEN /\ state' = "OPEN"
                   /\ opened_time' = now
              ELSE UNCHANGED <<state, opened_time>>

\* mutant: opens one failure late
on_failure_late ==
  /\ total_calls' = total_calls + 1
  /\ failed_calls' = failed_calls + 1
  /\ failure_count' = failure_count + 1
  /\ last_failure_time' = now
  /\ UNCHANGED <<successful_calls, rejected_calls, success_count>>
  /\ IF state = "HALF_OPEN"
       THEN /\ state' = "OPEN"
            /\ opened_time' = now
       ELSE IF state = "CLOSED" /\ failure_count' > failure_threshold
              THEN /\ state' = "OPEN"
                   /\ opened_time' = now
              ELSE UNCHANGED <<state, opened_time>>

\* CircuitBreaker._on_failure, under self._lock
on_failure ==
  /\ total_calls' = total_calls + 1
  /\ failed_calls' = failed_calls + 1
  /\ failure_count' = failure_count + 1
  /\ last_failure_time' = now
  /\ UNCHANGED <<successful_calls, rejected_calls, success_count>>
  /\ IF state = "HALF_OPEN"
       THEN /\ state' = "OPEN"
            /\ opened_time' = now
       ELSE IF state = "CLOSED" /\ failure_count' >= failure_threshold
              THEN /\ state' = "OPEN"
                   /\ opened_time' = now
              ELSE UNCHANGED <<state, opened_time>>

\* the body the NLP service answers a successful request with
NlpServiceResponse == [text_ml_score |-> 90, model_version |-> "nlp-v1"]

\* mutant: the except clause of call_nlp_service lets CircuitBreakerOpen
\* through to the caller
call_nlp_service_open_propagates(url_set, breaker_outcome, response) ==
  IF ~url_set
    THEN [text_ml_score |-> 0, model_version |-> "disabled"]
  ELSE IF breaker_outcome = "returned"
    THEN response
  ELSE IF breaker_outcome = "CircuitBreakerOpen"
    THEN [raised |-> "CircuitBreakerOpen"]
  ELSE [text_ml_score |-> 0, model_version |-> "error"]

\* call_nlp_service: what its caller gets, given whether NLP_SERVICE_URL is
\* set and how the call of _call_nlp through the nlp_service breaker ended
\* ("returned": response.json(); "raised": HTTP error or timeout;
\* "CircuitBreakerOpen": rejected by the breaker).  "except Exception"
\* turns every exception into the error fragment.
call_nlp_service(url_set, breaker_outcome, response) ==
  IF ~url_set
    THEN [text_ml_score |-> 0, model_version |-> "disabled"]
  ELSE IF breaker_outcome = "returned"
    THEN response
  ELSE [text_ml_score |-> 0, model_version |-> "error"]

\* the fields of a CircuitBreaker that admission reads, as __init__ leaves
\* them
CircuitBreaker == [state |-> "CLOSED", opened_time |-> NoTime]

\* mutant: the decorator constructs a breaker of its own every time it is
\* applied
circuit_breaker_unregistered(name) == CircuitBreaker

\* the decorator circuit_breaker(name=...), applied by every invocation of
\* call_nlp_service to its inner function: the breaker registered under the
\* name in _breakers is reused, and created when there is none
circuit_breaker(name) ==
  IF name \in breakers
    THEN [state |-> state, opened_time |-> opened_time]
    ELSE CircuitBreaker

\* call_nlp_service up to the wrapped function: the decorator, then the
\* admission check of CircuitBreaker.call, given who holds the lock
\* while the wrapped function runs (holder_while_running: 0 for nobody).
\* A rejected caller gets CircuitBreakerOpen and the lock is released; an
\* admitted one goes on to run the wrapped function.
admission(c, holder_while_running) ==
  /\ pc[c] = "idle"
  /\ call_seq[c] < MaxCallsPerCaller
  /\ lock \in {0, c}
  /\ call_seq' = [call_seq EXCEPT ![c] = @ + 1]
  /\ breakers' = breakers \cup {"nlp_service"}
  /\ UNCHANGED <<failure_count, last_failure_time, opened_time, total_calls,
                 successful_calls, failed_calls, now, open_since, streak,
                 opened_from>>
  /\ IF circuit_breaker("nlp_service").state = "OPEN"
       THEN IF should_attempt_reset
              THEN /\ state' = "HALF_OPEN"
                   /\ success_count' = 0
                   /\ ho_successes' = 0
                   /\ pc' = [pc EXCEPT ![c] = "running"]
                   /\ admitted_in' = [admitted_in EXCEPT ![c] = "HALF_OPEN"]
                   /\ invocations' = invocations + 1
                   /\ lock' = holder_while_running
                   /\ UNCHANGED <<rejected_calls, outcome, rejected_since_open,
                                  nlp_reply>>
              ELSE /\ rejected_calls' = rejected_calls + 1
                   /\ outcome' = [outcome EXCEPT ![c] = "CircuitBreakerOpen"]
                   /\ rejected_since_open' = TRUE
                   /\ nlp_reply' = [nlp_reply EXCEPT ![c] =
                         call_nlp_service(TRUE, "CircuitBreakerOpen",
                                          NlpServiceResponse)]
                   /\ lock' = 0
                   /\ UNCHANGED <<state, success_count, ho_successes, pc,
                                  admitted_in, invocations>>
       ELSE /\ pc' = [pc EXCEPT ![c] = "running"]
            /\ admitted_in' = [admitted_in EXCEPT ![c] = state]
            /\ invocations' = invocations + 1
            /\ lock' = holder_while_running
            /\ UNCHANGED <<state, success_count, ho_successes, rejected_calls,
                           outcome, rejected_since_open, nlp_reply>>

\* mutant: the wrapped function runs inside the "with self._lock" block
call_holding_lock(c) == admission(c, c)

\* CircuitBreaker.call, first part: the whole block "with self._lock" (the
\* re-entrant lock is taken on entry, which needs it free or held by the
\* caller itself, and released on leaving the block); the wrapped function
\* runs after the block, outside the lock.
call(c) == admission(c, 0)

\* CircuitBreaker.call, second part: the wrapped function returns and
\* _on_success takes the lock, records the success and releases the lock
call_returns(c) ==
  /\ pc[c] = "running"
  /\ lock \in {0, c}
  /\ lock' = 0
  /\ pc' = [pc EXCEPT ![c] = "idle"]
  /\ outcome' = [outcome EXCEPT ![c] = "returned"]
  /\ nlp_reply' = [nlp_reply EXCEPT ![c] =
        call_nlp_service(TRUE, "returned", NlpServiceResponse)]
  /\ on_success
  /\ streak' = 0
  /\ ho_successes' = IF state = "HALF_OPEN" THEN ho_successes + 1 ELSE ho_successes
  /\ UNCHANGED <<now, call_seq, admitted_in, invocations, open_since,
                 opened_from, rejected_since_open, breakers>>

\* CircuitBreaker.call, second part: the wrapped function raises and
\* _on_failure takes the lock, records the failure and releases the lock
call_raises(c) ==
  /\ pc[c] = "running"
  /\ lock \in {0, c}
  /\ lock' = 0
  /\ pc' = [pc EXCEPT ![c] = "idle"]
  /\ outcome' = [outcome EXCEPT ![c] = "raised"]
  /\ nlp_reply' = [nlp_reply EXCEPT ![c] =
        call_nlp_service(TRUE, "raised", NlpServiceResponse)]
  /\ on_failure
  /\ streak' = streak + 1
  /\ open_since' = IF state # "OPEN" /\ state' = "OPEN" THEN now ELSE open_since
  /\ opened_from' = IF state # "OPEN" /\ state' = "OPEN" THEN state ELSE opened_from
  /\ rejected_since_open' =
        IF state # "OPEN" /\ state' = "OPEN" THEN FALSE ELSE rejected_since_open
  /\ UNCHANGED <<now, call_seq, admitted_in, invocations, ho_successes,
                 breakers>>

\* the clock advances by one second
Tick ==
  /\ now < MaxTime
  /\ now' = now + 1
  /\ UNCHANGED <<state, failure_count, success_count, last_failure_time,
                 opened_time, total_calls, successful_calls, failed_calls,
                 rejected_calls, pc, outcome, call_seq, admitted_in,
                 invocations, nlp_reply, open_since, streak, ho_successes, opened_from,
                 rejected_since_open, lock, breakers>>

CB_Next ==
  \/ \E c \in Callers : call(c)
  \/ \E c \in Callers : call_returns(c)
  \/ \E c \in Callers : call_raises(c)
  \/ Tick

(***************************************************************************)
(* Admission control: the rate-limit decorators                            *)
(***************************************************************************)
RL_Init ==
  /\ redis_val = [k \in Scopes |-> 0]
  /\ redis_ttl = [k \in Scopes |-> NoTtl]
  /\ rl_now = 0
  /\ advances = 0
  /\ req_pc = [r \in Requests |-> "new"]
  /\ req_scope = [r \in Requests |-> "none"]
  /\ current = [r \in Requests |-> 0]
  /\ status = [r \in Requests |-> 0]
  /\ key_epoch = [k \in Scopes |-> 0]
  /\ key_first = [k \in Scopes |-> NoTime]
  /\ req_epoch = [r \in Requests |-> 0]
  /\ req_at = [r \in Requests |-> NoTime]
  /\ req_first = [r \in Requests |-> NoTime]

\* RateLimits: the unit of the limit each decorator is configured with
\* (INGEST_EMAIL_IP "100/minute", INGEST_EMAIL_KEY "10000/hour",
\* INGEST_EMAIL_TENANT "1000000/day"); the counts are scaled to LimitCount
LimitUnit(scope) ==
  CASE scope = "ip" -> "minute"
    [] scope = "key" -> "hour"
    [] scope = "tenant" -> "day"

\* the window named by a limit's unit
UnitSeconds(unit) ==
  CASE unit = "minute" -> 60
    [] unit = "hour" -> 3600
    [] unit = "day" -> 86400

\* rate_limit_by_ip: redis_client.expire(key, 60)
rate_limit_by_ip_window(unit) == 60

\* rate_limit_by_key: the window parsed from the limit string
rate_limit_by_key_window(unit) ==
  IF unit = "minute" THEN 60
  ELSE IF unit = "hour" THEN 3600
  ELSE IF unit = "day" THEN 86400
  ELSE 60

\* rate_limit_by_tenant: the window parsed from the limit string
rate_limit_by_tenant_window(unit) ==
  IF unit = "minute" THEN 60
  ELSE IF unit = "hour" THEN 3600
  ELSE IF unit = "day" THEN 86400
  ELSE 60

\* the expiry the wrapper of a scope passes to EXPIRE
ExpirySeconds(scope) ==
  CASE scope = "ip" -> rate_limit_by_ip_window(LimitUnit(scope))
    [] scope = "key" -> rate_limit_by_key_window(LimitUnit(scope))
    [] scope = "tenant" -> rate_limit_by_tenant_window(LimitUnit(scope))

\* mutant: the comparison admits one request too many
over_limit_off_by_one(cur, limit_count) == cur > limit_count + 1

\* "if current > limit_count: raise HTTPException(status_code=429)"
over_limit(cur, limit_count) == cur > limit_count

\* the tail of a wrapper: reject with 429 or call the wrapped handler
Decide(r, cur) ==
  IF over_limit(cur, LimitCount)
    THEN /\ req_pc' = [req_pc EXCEPT ![r] = "rejected"]
         /\ status' = [status EXCEPT ![r] = 429]
    ELSE /\ req_pc' = [req_pc EXCEPT ![r] = "handler"]
         /\ status' = [status EXCEPT ![r] = 200]

\* a request enters a wrapper: current = redis_client.incr(key).  INCR is
\* atomic, creates a missing key with value 1 and never touches the expiry.
\* When current # 1 the wrapper goes straight on to the comparison.
\* (requests are numbered in the order in which they arrive)
rate_limit_incr(r, scope) ==
  /\ req_pc[r] = "new"
  /\ \A q \in Requests : q < r => req_pc[q] # "new"
  /\ req_scope' = [req_scope EXCEPT ![r] = scope]
  /\ redis_val' = [redis_val EXCEPT ![scope] = @ + 1]
  /\ current' = [current EXCEPT ![r] = redis_val'[scope]]
  /\ key_first' = [key_first EXCEPT ![scope] =
                     IF redis_val[scope] = 0 THEN rl_now ELSE @]
  /\ req_epoch' = [req_epoch EXCEPT ![r] = key_epoch[scope]]
  /\ req_at' = [req_at EXCEPT ![r] = rl_now]
  /\ req_first' = [req_first EXCEPT ![r] = key_first'[scope]]
  /\ IF current'[r] = 1
       THEN /\ req_pc' = [req_pc EXCEPT ![r] = "expire"]
            /\ UNCHANGED status
       ELSE Decide(r, current'[r])
  /\ UNCHANGED <<redis_ttl, rl_now, advances, key_epoch>>

\* "if current == 1: redis_client.expire(key, window)", then the comparison
rate_limit_expire(r) ==
  /\ req_pc[r] = "expire"
  /\ redis_ttl' = [redis_ttl EXCEPT ![req_scope[r]] =
                     IF redis_val[req_scope[r]] > 0
                       THEN ExpirySeconds(req_scope[r]) ELSE @]
  /\ Decide(r, current[r])
  /\ UNCHANGED <<redis_val, rl_now, advances, req_scope, current, key_epoch,
                 key_first, req_epoch, req_at, req_first>>

\* the handler stops between INCR and EXPIRE (the EXPIRE round trip raises,
\* or the worker is killed): the request is answered with an error
rate_limit_stop(r) ==
  /\ req_pc[r] = "expire"
  /\ req_pc' = [req_pc EXCEPT ![r] = "stopped"]
  /\ status' = [status EXCEPT ![r] = 500]
  /\ UNCHANGED <<redis_val, redis_ttl, rl_now, advances, req_scope, current,
                 key_epoch, key_first, req_epoch, req_at, req_first>>

\* the clock advances by d seconds; Redis deletes the keys whose expiry passes
Advance(d) ==
  /\ advances < MaxAdvances
  /\ advances' = advances + 1
  /\ rl_now' = rl_now + d
  /\ redis_ttl' = [k \in Scopes |->
                     IF redis_ttl[k] = NoTtl \/ redis_ttl[k] <= d
                       THEN NoTtl ELSE redis_ttl[k] - d]
  /\ redis_val' = [k \in Scopes |->
                     IF redis_ttl[k] # NoTtl /\ redis_ttl[k] <= d
                       THEN 0 ELSE redis_val[k]]
  /\ key_epoch' = [k \in Scopes |->
                     IF redis_ttl[k] # NoTtl /\ redis_ttl[k] <= d
                       THEN key_epoch[k] + 1 ELSE key_epoch[k]]
  /\ key_first' = [k \in Scopes |->
                     IF redis_ttl[k] # NoTtl /\ redis_ttl[k] <= d
                       THEN NoTime ELSE key_first[k]]
  /\ UNCHANGED <<req_pc, req_scope, current, status, req_epoch, req_at,
                 req_first>>

RL_Next ==
  \/ \E r \in Requests, scope \in Scopes : rate_limit_incr(r, scope)
  \/ \E r \in Requests : rate_limit_expire(r)
  \/ \E r \in Requests : rate_limit_stop(r)
  \/ \E d \in AdvanceSteps : Advance(d)

(***************************************************************************)
(* Risk engine used by the pipeline (backend/scanner/risk_engine.py).      *)
(* Scores in [0,1] are integers in hundredths.                             *)
(***************************************************************************)
Max(a, b) == IF a >= b THEN a ELSE b
Min(a, b) == IF a <= b THEN a ELSE b

\* dict.get(key, default)
DictGet(d, key, default) == IF key \in DOMAIN d THEN d[key] ELSE default

\* backend/scanner/risk_engine.calculate_risk.  total_score is kept in
\* ten-thousandths; the returned score is round(min(total_score, 1.0), 2),
\* in hundredths (the sum is a multiple of 0.002, so no tie is ever rounded).
calculate_risk(text_ml_score, text_findings, url_result, malware_hits) ==
  LET url_score == DictGet(url_result, "score", 0)
      heuristic_score == DictGet(text_findings, "score", 0)
      weighted == 40 * text_ml_score + 40 * url_score + 20 * heuristic_score
      total_score == IF malware_hits # {} THEN Max(weighted, 9000) ELSE weighted
      reasons == (IF text_ml_score > 0
                    THEN {"NLP phishing model detected risk"} ELSE {})
                 \cup (IF url_score > 0
                         THEN DictGet(url_result, "signals", {}) ELSE {})
                 \cup DictGet(text_findings, "signals", {})
                 \cup (IF malware_hits # {}
                         THEN {"Malicious attachment detected"} ELSE {})
  IN [score |-> (Min(total_score, 10000) + 50) \div 100,
      verdict |-> IF total_score >= 7500 THEN "MALICIOUS"
                  ELSE IF total_score >= 4000 THEN "SUSPICIOUS"
                  ELSE "SAFE",
      reasons |-> IF reasons # {} THEN reasons
                  ELSE {"fallback risk calculation used"}]

(***************************************************************************)
(* Risk engine of the scanner package (scanner/risk_engine.py), and the    *)
(* evaluation of one message by both engines.                              *)
(***************************************************************************)
\* input values of a risk evaluation
ScoreLevels == {0, 20, 50, 71, 100}
UrlResultLists == {<<>>, <<[risk |-> "high"]>>}
TextFindings ==
  {[score |-> 0, signals |-> {}],
   [score |-> 50, signals |-> {"urgent", "verify"}],
   [score |-> 100, signals |-> {"urgent", "verify", "password", "invoice"}]}
MalwareHitLists == {{}, {"Eicar-Test-Signature"}}
NotScored == [none |-> TRUE]

\* the weighted sum is computed in binary floating point and truncated by
\* int(): for these inputs (combined_url_risk, text_ml_score, malware_risk,
\* capped signal count) the float sum lies just below the exact integer
\* value (0.35 * 0.2 * 100 evaluates to 6.999999999999999), so int() gives
\* one less
FloatShortfall(combined_url_risk, text_ml_score, malware_risk, signal_risk) ==
  <<combined_url_risk, text_ml_score, malware_risk, signal_risk>>
    \in {<<0, 20, 0, 0>>, <<20, 0, 0, 0>>, <<20, 20, 0, 0>>, <<20, 20, 0, 2>>}

\* mutant: the text score is counted against the message
scanner_calculate_risk_inverted(url_results, text_findings, malware_hits, text_ml_score, url_ml_score, url_ml_signals) ==
  LET url_heuristic_risk ==
        Cardinality({i \in DOMAIN url_results :
                       DictGet(url_results[i], "risk", "none") = "high"})
      malware_risk == IF malware_hits # {} THEN 1 ELSE 0
      combined_url_risk == Max(Min(url_heuristic_risk, 1) * 100, url_ml_score)
      score == Min((35 * combined_url_risk + 35 * (100 - text_ml_score)
                    + 2000 * malware_risk) \div 100, 100)
  IN [risk_score |-> score,
      phishing_probability |-> score,
      verdict |-> IF score < 30 THEN "SAFE"
                  ELSE IF score < 70 THEN "SUSPICIOUS"
                  ELSE "MALICIOUS",
      explainability |-> {}]

\* mutant: the verdict is cut at 40 and 75, the cut-offs of the other engine
scanner_calculate_risk_cut_40_75(url_results, text_findings, malware_hits, text_ml_score, url_ml_score, url_ml_signals) ==
  LET url_heuristic_risk ==
        Cardinality({i \in DOMAIN url_results :
                       DictGet(url_results[i], "risk", "none") = "high"})
      heuristic_text_risk == Cardinality(DictGet(text_findings, "signals", {}))
      malware_risk == IF malware_hits # {} THEN 1 ELSE 0
      combined_url_risk == Max(Min(url_heuristic_risk, 1) * 100, url_ml_score)
      signal_risk == Min(heuristic_text_risk, 3)
      exact == 35 * combined_url_risk + 35 * text_ml_score
               + 2000 * malware_risk + 100 * signal_risk
      truncated == exact \div 100
                   - (IF FloatShortfall(combined_url_risk, text_ml_score,
                                        malware_risk, signal_risk)
                        THEN 1 ELSE 0)
      score == Min(truncated, 100)
  IN [risk_score |-> score,
      phishing_probability |-> score,
      verdict |-> IF score < 40 THEN "SAFE"
                  ELSE IF score < 75 THEN "SUSPICIOUS"
                  ELSE "MALICIOUS",
      explainability |-> {}]

\* scanner/risk_engine.calculate_risk(url_results, text_findings,
\* malware_hits, text_ml_score, url_ml_score, url_ml_signals); the returned
\* risk_score is on the 0-100 scale
scanner_calculate_risk(url_results, text_findings, malware_hits, text_ml_score, url_ml_score, url_ml_signals) ==
  LET url_heuristic_risk ==
        Cardinality({i \in DOMAIN url_results :
                       DictGet(url_results[i], "risk", "none") = "high"})
      heuristic_text_risk == Cardinality(DictGet(text_findings, "signals", {}))
      malware_risk == IF malware_hits # {} THEN 1 ELSE 0
      combined_url_risk == Max(Min(url_heuristic_risk, 1) * 100, url_ml_score)
      signal_risk == Min(heuristic_text_risk, 3)
      exact == 35 * combined_url_risk + 35 * text_ml_score
               + 2000 * malware_risk + 100 * signal_risk
      truncated == exact \div 100
                   - (IF FloatShortfall(combined_url_risk, text_ml_score,
                                        malware_risk, signal_risk)
                        THEN 1 ELSE 0)
      score == Min(truncated, 100)
      explainability ==
        (IF combined_url_risk > 0 THEN {"Suspicious URL detected"} ELSE {})
        \cup url_ml_signals
        \cup (IF text_ml_score > 70
                THEN {"ML model detected phishing language"} ELSE {})
        \cup (IF heuristic_text_risk > 0
                THEN {"Suspicious email language detected"} ELSE {})
        \cup (IF malware_risk = 1
                THEN {"Malware detected in attachment"} ELSE {})
  IN [risk_score |-> score,
      phishing_probability |-> score,
      verdict |-> IF score < 30 THEN "SAFE"
                  ELSE IF score < 70 THEN "SUSPICIOUS"
                  ELSE "MALICIOUS",
      explainability |-> explainability]

\* no evaluation in progress (the state the other subsystems run in)
Risk_Idle ==
  /\ re_url_results = <<>>
  /\ re_text_findings = [score |-> 0, signals |-> {}]
  /\ re_malware_hits = {}
  /\ re_text_ml_score = 0
  /\ re_url_ml_score = 0
  /\ re_scanner_eval = NotScored
  /\ re_backend_eval = NotScored
  /\ re_rescored = "none"

\* the enrichment results of one message, not yet scored
Risk_Inputs ==
  /\ re_url_results \in UrlResultLists
  /\ re_text_findings \in TextFindings
  /\ re_malware_hits \in MalwareHitLists
  /\ re_text_ml_score \in ScoreLevels
  /\ re_url_ml_score \in ScoreLevels
  /\ re_scanner_eval = NotScored
  /\ re_backend_eval = NotScored
  /\ re_rescored = "none"

\* both engines applied to the inputs text_ml_score and url_ml_score and the
\* other, unchanged, enrichment results
evaluate(text_ml_score, url_ml_score) ==
  /\ re_text_ml_score' = text_ml_score
  /\ re_url_ml_score' = url_ml_score
  /\ re_scanner_eval' = scanner_calculate_risk(re_url_results, re_text_findings,
                                         re_malware_hits, text_ml_score,
                                         url_ml_score, {})
  /\ re_backend_eval' =
        calculate_risk(text_ml_score, re_text_findings,
                       [score |-> url_ml_score, signals |-> {}],
                       re_malware_hits)
  /\ UNCHANGED <<re_url_results, re_text_findings, re_malware_hits>>

\* the message is scored
score_message ==
  /\ re_scanner_eval = NotScored
  /\ evaluate(re_text_ml_score, re_url_ml_score)
  /\ UNCHANGED re_rescored

\* the message is scored again with a higher text_ml_score
rescore_text(text_ml_score) ==
  /\ re_scanner_eval # NotScored
  /\ text_ml_score > re_text_ml_score
  /\ evaluate(text_ml_score, re_url_ml_score)
  /\ re_rescored' = "text"

\* the message is scored again with a higher URL score
rescore_url(url_ml_score) ==
  /\ re_scanner_eval # NotScored
  /\ url_ml_score > re_url_ml_score
  /\ evaluate(re_text_ml_score, url_ml_score)
  /\ re_rescored' = "url"

Risk_Next ==
  \/ score_message
  \/ \E text_ml_score \in ScoreLevels : rescore_text(text_ml_score)
  \/ \E url_ml_score \in ScoreLevels : rescore_url(url_ml_score)

(***************************************************************************)
(* Anomaly detection (backend/anomaly_detection.py,                        *)
(* backend/anomaly_integration.py).  A list-valued field of email_data     *)
(* (urls, attachments) and a text field (body, subject) are represented by *)
(* their length, the only thing the detectors read of them.  Confidences   *)
(* in [0,1] are integers in hundredths, rounded down.                      *)
(***************************************************************************)
\* AnomalyConfig (anomaly_detection.py) and the escalation threshold
\* (anomaly_integration.py), the latter in hundredths
ZSCORE_THRESHOLD == 3
RISK_SCORE_ANOMALY_THRESHOLD == 85
URL_COUNT_ANOMALY_THRESHOLD == 10
ATTACHMENT_ANOMALY_THRESHOLD == 5
ANOMALY_CONFIDENCE_THRESHOLD == 80

\* what a detector call can give back besides a finding: None, an exception;
\* NotConsulted marks a detector analyze did not call
NoFinding == [none |-> TRUE]
NotConsulted == [skipped |-> TRUE]
Raised(exception) == [raised |-> exception]
IsFinding(r) == "is_anomaly" \in DOMAIN r
IsRaised(r) == "raised" \in DOMAIN r

AnomalyScore(confidence, anomaly_type, details, detection_method) ==
  [is_anomaly |-> TRUE, confidence |-> confidence,
   anomaly_type |-> anomaly_type, details |-> details,
   detection_method |-> detection_method]

\* the keys of StatisticalAnomalyDetector.feature_history, in dict order
FeatureOrder == <<"risk_score", "url_count", "attachment_count", "body_length">>
Features == {FeatureOrder[i] : i \in DOMAIN FeatureOrder}
Senders == {"alice", "mallory"}
Recipients == {"unknown", "bob"}

\* EmailFeatures.extract, restricted to the features that have a history
\* (the others are computed and never read)
extract(email_data) ==
  [risk_score |-> DictGet(email_data, "risk_score", 0),
   url_count |-> DictGet(email_data, "urls", 0),
   attachment_count |-> DictGet(email_data, "attachments", 0),
   body_length |-> DictGet(email_data, "body", 0)]

\* mutant: a full deque refuses the new element
deque_append_keeps_oldest(d, x, maxlen) ==
  IF Len(d) >= maxlen THEN d ELSE Append(d, x)

\* collections.deque(maxlen=maxlen).append(x)
deque_append(d, x, maxlen) ==
  IF Len(d) >= maxlen THEN Append(Tail(d), x) ELSE Append(d, x)

\* StatisticalAnomalyDetector.add_sample
add_sample(history, features) ==
  [f \in Features |-> deque_append(history[f], features[f], window_size)]

RECURSIVE SeqSum(_)
SeqSum(s) == IF s = <<>> THEN 0 ELSE Head(s) + SeqSum(Tail(s))

\* floor of the square root
ISqrt(n) == CHOOSE k \in 0..100 : k * k <= n /\ (k + 1) * (k + 1) > n

\* with n = len(values), S their sum and Q the sum of their squares,
\* mean = S/n and stdev^2 = (n*Q - S^2) / (n*(n-1)), so that
\* zscore^2 = ZScoreNum / ZScoreDen
ZScoreNum(values, current_value) ==
  LET n == Len(values)
      d == n * current_value - SeqSum(values)
  IN d * d * (n - 1)

ZScoreDen(values) ==
  LET n == Len(values)
      S == SeqSum(values)
      Q == SeqSum([i \in DOMAIN values |-> values[i] * values[i]])
  IN n * (n * Q - S * S)

\* mutant: two samples are enough for the z-score
detect_zscore_anomaly_two_samples(history, features) ==
  LET fires(i) ==
        LET values == history[FeatureOrder[i]]
        IN /\ Len(values) >= 2
           /\ ZScoreDen(values) # 0
           /\ ZScoreNum(values, features[FeatureOrder[i]])
                > ZSCORE_THRESHOLD * ZSCORE_THRESHOLD * ZScoreDen(values)
      hits == {i \in DOMAIN FeatureOrder : fires(i)}
  IN IF hits = {} THEN NoFinding
     ELSE LET i == CHOOSE j \in hits : \A k \in hits : j <= k
          IN [feature |-> FeatureOrder[i], confidence |-> 100]

\* StatisticalAnomalyDetector.detect_zscore_anomaly: the first feature, in
\* dict order, with at least 10 samples, a non-zero stdev and a z-score
\* above the threshold; confidence = min(1.0, zscore / (threshold * 2)),
\* here to within one hundredth
detect_zscore_anomaly(history, features) ==
  LET fires(i) ==
        LET values == history[FeatureOrder[i]]
        IN /\ Len(values) >= 10
           /\ ZScoreDen(values) # 0
           /\ ZScoreNum(values, features[FeatureOrder[i]])
                > ZSCORE_THRESHOLD * ZSCORE_THRESHOLD * ZScoreDen(values)
      hits == {i \in DOMAIN FeatureOrder : fires(i)}
  IN IF hits = {} THEN NoFinding
     ELSE LET i == CHOOSE j \in hits : \A k \in hits : j <= k
              values == history[FeatureOrder[i]]
              ratio == (100 * ZScoreNum(values, features[FeatureOrder[i]]))
                       \div (ZSCORE_THRESHOLD * ZSCORE_THRESHOLD
                             * ZScoreDen(values))
          IN [feature |-> FeatureOrder[i],
              confidence |-> IF ratio >= 400 THEN 100 ELSE ISqrt(25 * ratio)]

\* twice the bounds q1 - 1.5*iqr and q3 + 1.5*iqr that detect_iqr_anomaly
\* computes from the sorted values of one feature
iqr_bounds(values) ==
  LET sorted_values == SortSeq(values, LAMBDA a, b : a < b)
      q1 == sorted_values[(Len(values) \div 4) + 1]
      q3 == sorted_values[((3 * Len(values)) \div 4) + 1]
  IN [lower2 |-> 2 * q1 - 3 * (q3 - q1), upper2 |-> 2 * q3 + 3 * (q3 - q1)]

\* the test detect_iqr_anomaly makes on one feature: at least 10 samples and
\* the current value outside the bounds
iqr_outside(values, current_value) ==
  /\ Len(values) >= 10
  /\ \E bounds \in {iqr_bounds(values)} :
       \/ 2 * current_value < bounds.lower2
       \/ 2 * current_value > bounds.upper2

\* what detect_iqr_anomaly gives back for a feature outside its bounds.
\* Above the upper bound the confidence is distance / (upper_bound * 2): the
\* division raises ZeroDivisionError when the upper bound is 0.
iqr_outcome(feature_name, current2, lower2, upper2) ==
  IF current2 > upper2
    THEN IF upper2 = 0
           THEN Raised("ZeroDivisionError")
           ELSE [feature |-> feature_name,
                 confidence |->
                   Min(100, (100 * (current2 - upper2)) \div (2 * upper2))]
    ELSE [feature |-> feature_name,
          confidence |->
            Min(100, (100 * (lower2 - current2))
                       \div (IF lower2 # 0 THEN 2 * lower2 ELSE 2))]

\* StatisticalAnomalyDetector.detect_iqr_anomaly: the first feature, in dict
\* order, with at least 10 samples whose current value lies outside
\* [q1 - 1.5*iqr, q3 + 1.5*iqr]
detect_iqr_anomaly(history, features) ==
  LET hits == {i \in DOMAIN FeatureOrder :
                 iqr_outside(history[FeatureOrder[i]],
                             features[FeatureOrder[i]])}
  IN IF hits = {} THEN NoFinding
     ELSE LET i == CHOOSE j \in hits : \A k \in hits : j <= k
          IN iqr_outcome(FeatureOrder[i],
                         2 * features[FeatureOrder[i]],
                         iqr_bounds(history[FeatureOrder[i]]).lower2,
                         iqr_bounds(history[FeatureOrder[i]]).upper2)

\* what detect gives back for the outcomes of its two detectors; the sample
\* is added to the histories on every return (not when a detector raises)
detected(zscore_result, iqr_result, features) ==
  IF zscore_result # NoFinding
    THEN [returned |-> AnomalyScore(zscore_result.confidence,
                         "outlier_zscore",
                         [feature |-> zscore_result.feature,
                          value |-> features[zscore_result.feature]],
                         "zscore"),
          sampled |-> TRUE]
  ELSE IF IsRaised(iqr_result)
    THEN [returned |-> iqr_result, sampled |-> FALSE]
  ELSE IF iqr_result # NoFinding
    THEN [returned |-> AnomalyScore(iqr_result.confidence,
                         "outlier_iqr",
                         [feature |-> iqr_result.feature,
                          value |-> features[iqr_result.feature]],
                         "iqr"),
          sampled |-> TRUE]
  ELSE [returned |-> NoFinding, sampled |-> TRUE]

\* StatisticalAnomalyDetector.detect: z-score first, then IQR
detect(history, features) ==
  detected(detect_zscore_anomaly(history, features),
           detect_iqr_anomaly(history, features), features)

\* BehavioralAnomalyDetector.detect_sender_anomaly, on the tracked history of
\* the sender (a sender that was never tracked has an empty one); the
\* confidence is min(1.0, (current_risk - mean_risk) / 100.0).  No caller of
\* this method exists in the repository.
detect_sender_anomaly(history, current_risk) ==
  IF Len(history) < 5 THEN NoFinding
  ELSE IF /\ SeqSum([i \in DOMAIN history |-> history[i].risk_score])
               < 30 * Len(history)
          /\ current_risk > 70
    THEN AnomalyScore(
           Min(100, (Len(history) * current_risk
                     - SeqSum([i \in DOMAIN history |-> history[i].risk_score]))
                    \div Len(history)),
           "sender_behavior_change",
           [current_risk |-> current_risk], "behavioral")
  ELSE NoFinding

\* BehavioralAnomalyDetector.detect_new_sender_anomaly, on the recipient's
\* history after the sender has been appended to it: None below 20 entries;
\* from 20 entries on, history[-20:] slices a deque, which raises TypeError
detect_new_sender_anomaly(history) ==
  IF Len(history) < 20 THEN NoFinding ELSE Raised("TypeError")

\* PatternAnomalyDetector.detect_high_risk_patterns
detect_high_risk_patterns(email_data) ==
  LET risk_score == DictGet(email_data, "risk_score", 0)
      url_count == DictGet(email_data, "urls", 0)
      attachment_count == DictGet(email_data, "attachments", 0)
  IN IF risk_score > RISK_SCORE_ANOMALY_THRESHOLD
       THEN AnomalyScore(
              Min(100, (100 * (risk_score - RISK_SCORE_ANOMALY_THRESHOLD)) \div 50),
              "extreme_risk", [risk_score |-> risk_score], "pattern")
     ELSE IF url_count > URL_COUNT_ANOMALY_THRESHOLD
       THEN AnomalyScore(Min(100, (100 * url_count) \div 20),
                         "excessive_urls", [url_count |-> url_count], "pattern")
     ELSE IF attachment_count > ATTACHMENT_ANOMALY_THRESHOLD
       THEN AnomalyScore(Min(100, (100 * attachment_count) \div 10),
                         "excessive_attachments",
                         [attachment_count |-> attachment_count], "pattern")
     ELSE NoFinding

\* mutant: the statistical detector is consulted before the pattern detector
consulted_statistical_first(pattern, statistical, behavioral) ==
  IF statistical.returned # NoFinding
    THEN [pattern |-> NotConsulted, statistical |-> statistical.returned,
          behavioral |-> NotConsulted, result |-> statistical.returned,
          sampled |-> statistical.sampled, tracked |-> FALSE]
  ELSE IF pattern # NoFinding
    THEN [pattern |-> pattern, statistical |-> NoFinding,
          behavioral |-> NotConsulted, result |-> pattern,
          sampled |-> TRUE, tracked |-> FALSE]
  ELSE [pattern |-> NoFinding, statistical |-> NoFinding,
        behavioral |-> behavioral, result |-> behavioral,
        sampled |-> TRUE, tracked |-> TRUE]

\* AnomalyDetectionEngine.analyze, the order in which it consults the
\* detectors, given what each of them gives back when called: pattern first,
\* statistical only when pattern has no finding, behavioral only when
\* neither has; the fields say what each consulted detector gave back, what
\* analyze gives back, whether the sample reached the feature histories and
\* whether the sender was tracked
consulted(pattern, statistical, behavioral) ==
  IF pattern # NoFinding
    THEN [pattern |-> pattern, statistical |-> NotConsulted,
          behavioral |-> NotConsulted, result |-> pattern,
          sampled |-> FALSE, tracked |-> FALSE]
  ELSE IF statistical.returned # NoFinding
    THEN [pattern |-> NoFinding, statistical |-> statistical.returned,
          behavioral |-> NotConsulted, result |-> statistical.returned,
          sampled |-> statistical.sampled, tracked |-> FALSE]
  ELSE [pattern |-> NoFinding, statistical |-> NoFinding,
        behavioral |-> behavioral, result |-> behavioral,
        sampled |-> TRUE, tracked |-> TRUE]

\* the detectors of the engine applied to email_data: the behavioral one is
\* called on the recipient's history after track_sender appended the sender
consult(email_data) ==
  consulted(detect_high_risk_patterns(email_data),
            detect(feature_history, extract(email_data)),
            detect_new_sender_anomaly(
              deque_append(
                recipient_history[DictGet(email_data, "recipient", "unknown")],
                DictGet(email_data, "sender", "unknown"), 500)))

\* AnomalyDetectionEngine.analyze(email_data), with every state change it
\* makes in the detectors.  (The timestamp track_sender stores is never
\* read and is left out.)
analyze(email_data) ==
  \E c \in {consult(email_data)}, features \in {extract(email_data)},
     recipient \in {DictGet(email_data, "recipient", "unknown")},
     sender \in {DictGet(email_data, "sender", "unknown")} :
     /\ total_analyzed < an_base + MaxAnalyzed
     /\ total_analyzed' = total_analyzed + 1
     /\ anomalies_detected' = IF IsFinding(c.result)
                                THEN anomalies_detected + 1
                                ELSE anomalies_detected
     /\ feature_history' = IF c.sampled
                             THEN add_sample(feature_history, features)
                             ELSE feature_history
     /\ an_arrived' = IF c.sampled
                        THEN [f \in Features |->
                                Append(an_arrived[f], features[f])]
                        ELSE an_arrived
     /\ sender_history' =
          IF c.tracked
            THEN [sender_history EXCEPT ![sender] =
                    deque_append(@, [risk_score |->
                                       DictGet(email_data, "risk_score", 0),
                                     urls |-> DictGet(email_data, "urls", 0)],
                                 100)]
            ELSE sender_history
     /\ recipient_history' =
          IF c.tracked
            THEN [recipient_history EXCEPT ![recipient] =
                    deque_append(@, sender, 500)]
            ELSE recipient_history
     /\ an_email' = email_data
     /\ an_pattern' = c.pattern
     /\ an_statistical' = c.statistical
     /\ an_behavioral' = c.behavioral
     /\ an_result' = c.result
     /\ UNCHANGED an_base

\* mutant: only a confidence above the threshold escalates
should_escalate_anomaly_above(anomaly_info) ==
  IF anomaly_info = NoFinding THEN FALSE
  ELSE IF anomaly_info.confidence > ANOMALY_CONFIDENCE_THRESHOLD THEN TRUE
  ELSE IF anomaly_info.anomaly_type \in
            {"sender_behavior_change", "high_new_sender_rate", "extreme_risk"}
    THEN TRUE
  ELSE FALSE

\* anomaly_integration.should_escalate_anomaly
should_escalate_anomaly(anomaly_info) ==
  IF anomaly_info = NoFinding THEN FALSE
  ELSE IF anomaly_info.confidence >= ANOMALY_CONFIDENCE_THRESHOLD THEN TRUE
  ELSE IF anomaly_info.anomaly_type \in
            {"sender_behavior_change", "high_new_sender_rate", "extreme_risk"}
    THEN TRUE
  ELSE FALSE

\* the anomaly stage of process_email: detect_anomalies builds email_data,
\* has the engine analyse it and returns the finding as a dict, or None when
\* there is none or the engine raised; process_email then asks
\* should_escalate_anomaly about a finding
detect_anomalies(sender, body, urls, risk_score) ==
  /\ analyze([subject |-> 7, body |-> body, urls |-> urls,
              risk_score |-> risk_score, sender |-> sender])
  /\ an_info' = IF IsFinding(an_result')
                  THEN [anomaly_type |-> an_result'.anomaly_type,
                        confidence |-> an_result'.confidence,
                        detection_method |-> an_result'.detection_method,
                        details |-> an_result'.details]
                  ELSE NoFinding
  /\ an_escalated' = IF an_info' # NoFinding
                       THEN should_escalate_anomaly(an_info')
                       ELSE FALSE

\* the engine called directly, with an email_data of the caller's making
engine_analyze(email_data) ==
  /\ analyze(email_data)
  /\ UNCHANGED <<an_info, an_escalated>>

\* a quiet message of the pipeline: no URL, risk score 0, a five-character
\* body, from alice
QuietMessage == [sender |-> "alice", body |-> 5, urls |-> 0, risk_score |-> 0]

\* the messages process_email hands to detect_anomalies
PipelineMessages ==
  {QuietMessage,
   [QuietMessage EXCEPT !.sender = "mallory"],
   [QuietMessage EXCEPT !.body = 0],
   [QuietMessage EXCEPT !.body = 8],
   [QuietMessage EXCEPT !.body = 9],
   [QuietMessage EXCEPT !.body = 100],
   [QuietMessage EXCEPT !.urls = 1],
   [QuietMessage EXCEPT !.urls = 11],
   [QuietMessage EXCEPT !.urls = 16],
   [QuietMessage EXCEPT !.risk_score = 90]}

\* email_data of direct calls of the engine
DirectMessages ==
  {[subject |-> 7, body |-> 5, urls |-> 0, risk_score |-> 0,
    sender |-> "alice", recipient |-> "bob", attachments |-> 6],
   [subject |-> 7, body |-> 5, urls |-> 0, risk_score |-> 0,
    sender |-> "alice", recipient |-> "bob", attachments |-> 0],
   [subject |-> 7, body |-> 5, urls |-> 0, risk_score |-> 80,
    sender |-> "alice", recipient |-> "bob", attachments |-> 0]}

RECURSIVE Repeat(_, _)
Repeat(x, n) == IF n = 0 THEN <<>> ELSE Append(Repeat(x, n - 1), x)

\* the engine after n quiet messages of the pipeline have been analysed
\* (n < 20): each of them passed all three detectors without a finding
Baseline(n) ==
  /\ feature_history =
       [f \in Features |->
          Repeat(extract([body |-> QuietMessage.body,
                          urls |-> QuietMessage.urls,
                          risk_score |-> QuietMessage.risk_score])[f],
                 Min(n, window_size))]
  /\ sender_history =
       [s \in Senders |->
          IF s = QuietMessage.sender
            THEN Repeat([risk_score |-> QuietMessage.risk_score,
                         urls |-> QuietMessage.urls], Min(n, 100))
            ELSE <<>>]
  /\ recipient_history =
       [r \in Recipients |->
          IF r = "unknown" THEN Repeat(QuietMessage.sender, n)
          ELSE <<>>]
  /\ anomalies_detected = 0
  /\ total_analyzed = n
  /\ an_email = NoFinding
  /\ an_pattern = NotConsulted
  /\ an_statistical = NotConsulted
  /\ an_behavioral = NotConsulted
  /\ an_result = NoFinding
  /\ an_info = NoFinding
  /\ an_escalated = FALSE
  /\ an_arrived =
       [f \in Features |->
          Repeat(extract([body |-> QuietMessage.body,
                          urls |-> QuietMessage.urls,
                          risk_score |-> QuietMessage.risk_score])[f], n)]
  /\ an_base = n

\* a freshly constructed engine (the state the other subsystems run in)
Anomaly_Idle == Baseline(0)

\* the baselines a run starts from: a fresh engine, one a sample short of
\* the statistical minimum, one an entry short of the behavioral minimum
BaselineLengths == {0, 9, 19}

Anomaly_Baselines == \E n \in BaselineLengths : Baseline(n)

Anomaly_Next ==
  \/ \E msg \in PipelineMessages :
        detect_anomalies(msg.sender, msg.body, msg.urls, msg.risk_score)
  \/ \E email_data \in DirectMessages : engine_analyze(email_data)

(***************************************************************************)
(* Ingestion and the task pipeline                                         *)
(***************************************************************************)
Tenants == {"t_default", "t_warm", "t_hot"}
NoRow == [none |-> TRUE]

\* the active tenant_policies row of a tenant, if any
PolicyRow(tenant) ==
  CASE tenant = "t_default" -> NoRow
    [] tenant = "t_warm" -> [cold_threshold |-> 0, warm_threshold |-> 75]
    [] tenant = "t_hot" -> [cold_threshold |-> 0, warm_threshold |-> 0]

\* get_active_policy: the tenant's active row, or the default policy when
\* there is none or the query raises
get_active_policy(tenant, db_ok) ==
  IF ~db_ok \/ PolicyRow(tenant) = NoRow
    THEN [cold_threshold |-> 40, warm_threshold |-> 75]
    ELSE [cold_threshold |-> PolicyRow(tenant).cold_threshold,
          warm_threshold |-> PolicyRow(tenant).warm_threshold]

\* DDoSProtection.detect_suspicious_pattern
detect_suspicious_pattern(has_user_agent, header_count) ==
  IF ~has_user_agent THEN TRUE
  ELSE IF header_count < 5 THEN TRUE
  ELSE FALSE

\* fragments returned by the enrichment tasks (scores in hundredths)
NlpResults ==
  {[text_ml_score |-> 0, model_version |-> "fallback"],
   [text_ml_score |-> 0, model_version |-> "error"],
   [text_ml_score |-> 100, model_version |-> "nlp-v1"]}
UrlResults ==
  {[score |-> 0, signals |-> {}],
   [score |-> 100, signals |-> {"High-risk URL detected"}]}

Pipe_Init ==
  /\ ingested = [m \in Msgs |-> FALSE]
  /\ msg_priority = [m \in Msgs |-> "normal"]
  /\ msg_urls = [m \in Msgs |-> FALSE]
  /\ msg_tenant = [m \in Msgs |-> "t_default"]
  /\ flagged = [m \in Msgs |-> FALSE]
  /\ pe_state = [m \in Msgs |-> "absent"]
  /\ pe_retries = [m \in Msgs |-> 0]
  /\ pe_queue = [m \in Msgs |-> "none"]
  /\ pe_priority = [m \in Msgs |-> 0]
  /\ pe_countdown = [m \in Msgs |-> 0]
  /\ pe_attempts = [m \in Msgs |-> 0]
  /\ pe_nlp_result = [m \in Msgs |-> NoRow]
  /\ pe_risk_eval = [m \in Msgs |-> NoRow]
  /\ cold_threshold = [m \in Msgs |-> 0]
  /\ warm_threshold = [m \in Msgs |-> 0]
  /\ text_score = [m \in Msgs |-> 0]
  /\ pe_category = [m \in Msgs |-> "none"]
  /\ abort_cause = [m \in Msgs |-> "none"]
  /\ pd_queue = {}
  /\ ed_queue = {}
  /\ email_decisions = [m \in Msgs |-> <<>>]
  /\ soc_alerts = [m \in Msgs |-> <<>>]
  /\ audit_log = [m \in Msgs |-> 0]
  /\ enforced = [m \in Msgs |-> 0]
  /\ not_found = [m \in Msgs |-> 0]
  /\ redeliveries = 0

\* mutant: a request flagged by the abuse heuristic is turned away
ingest_email_blocks_flagged(m, priority, has_urls, tenant, has_user_agent, header_count) ==
  /\ ~ingested[m]
  /\ \A q \in Msgs : q < m => ingested[q]
  /\ flagged' = [flagged EXCEPT ![m] =
                   detect_suspicious_pattern(has_user_agent, header_count)]
  /\ ingested' = [ingested EXCEPT ![m] = TRUE]
  /\ msg_priority' = [msg_priority EXCEPT ![m] = priority]
  /\ msg_urls' = [msg_urls EXCEPT ![m] = has_urls]
  /\ msg_tenant' = [msg_tenant EXCEPT ![m] = tenant]
  /\ IF flagged'[m]
       THEN UNCHANGED <<pe_state, pe_queue, pe_priority>>
       ELSE /\ pe_state' = [pe_state EXCEPT ![m] = "queued"]
            /\ pe_queue' = [pe_queue EXCEPT ![m] = "emails"]
            /\ pe_priority' = [pe_priority EXCEPT ![m] =
                                 IF priority = "high" THEN 3 ELSE 5]
  /\ UNCHANGED <<pe_retries, pe_countdown, cold_threshold, warm_threshold,
                 text_score, pe_category, abort_cause, pd_queue, ed_queue,
                 email_decisions, soc_alerts, audit_log, enforced, not_found,
                 redeliveries>>
  /\ UNCHANGED pe_attempts
  /\ UNCHANGED <<pe_nlp_result, pe_risk_eval>>

\* ingest_email: log the abuse heuristic, generate the identifier, publish
\* process_email (no queue is named, so the task's own queue "emails" is
\* used) and acknowledge.  (Messages are numbered in order of arrival.)
ingest_email(m, priority, has_urls, tenant, has_user_agent, header_count) ==
  /\ ~ingested[m]
  /\ \A q \in Msgs : q < m => ingested[q]
  /\ ingested' = [ingested EXCEPT ![m] = TRUE]
  /\ flagged' = [flagged EXCEPT ![m] =
                   detect_suspicious_pattern(has_user_agent, header_count)]
  /\ msg_priority' = [msg_priority EXCEPT ![m] = priority]
  /\ msg_urls' = [msg_urls EXCEPT ![m] = has_urls]
  /\ msg_tenant' = [msg_tenant EXCEPT ![m] = tenant]
  /\ pe_state' = [pe_state EXCEPT ![m] = "queued"]
  /\ pe_queue' = [pe_queue EXCEPT ![m] = "emails"]
  /\ pe_priority' = [pe_priority EXCEPT ![m] = IF priority = "high" THEN 3 ELSE 5]
  /\ UNCHANGED <<pe_retries, pe_countdown, cold_threshold, warm_threshold,
                 text_score, pe_category, abort_cause, pd_queue, ed_queue,
                 email_decisions, soc_alerts, audit_log, enforced, not_found,
                 redeliveries>>
  /\ UNCHANGED pe_attempts
  /\ UNCHANGED <<pe_nlp_result, pe_risk_eval>>

\* max_retries of process_email
max_retries == 3

Pow2(n) == IF n = 0 THEN 1 ELSE IF n = 1 THEN 2 ELSE IF n = 2 THEN 4 ELSE 8

\* mutant: the retry budget is one larger than max_retries
retry_once_more(m, cause) ==
  /\ abort_cause' = [abort_cause EXCEPT ![m] = cause]
  /\ text_score' = [text_score EXCEPT ![m] = 0]
  /\ pe_nlp_result' = [pe_nlp_result EXCEPT ![m] = NoRow]
  /\ pe_risk_eval' = [pe_risk_eval EXCEPT ![m] = NoRow]
  /\ cold_threshold' = [cold_threshold EXCEPT ![m] = 0]
  /\ warm_threshold' = [warm_threshold EXCEPT ![m] = 0]
  /\ pe_category' = [pe_category EXCEPT ![m] = "none"]
  /\ IF pe_retries[m] <= max_retries
       THEN /\ pe_state' = [pe_state EXCEPT ![m] = "queued"]
            /\ pe_countdown' = [pe_countdown EXCEPT ![m] = Pow2(pe_retries[m])]
            /\ pe_retries' = [pe_retries EXCEPT ![m] = @ + 1]
       ELSE /\ pe_state' = [pe_state EXCEPT ![m] = "failed"]
            /\ UNCHANGED <<pe_countdown, pe_retries>>

\* the except clause of process_email:
\* raise self.retry(exc=exc, countdown=2 ** self.request.retries).
\* Task.retry republishes the task with retries + 1 unless retries has
\* reached max_retries, in which case the task fails for good.
retry(m, cause) ==
  /\ abort_cause' = [abort_cause EXCEPT ![m] = cause]
  /\ text_score' = [text_score EXCEPT ![m] = 0]
  /\ pe_nlp_result' = [pe_nlp_result EXCEPT ![m] = NoRow]
  /\ pe_risk_eval' = [pe_risk_eval EXCEPT ![m] = NoRow]
  /\ cold_threshold' = [cold_threshold EXCEPT ![m] = 0]
  /\ warm_threshold' = [warm_threshold EXCEPT ![m] = 0]
  /\ pe_category' = [pe_category EXCEPT ![m] = "none"]
  /\ IF pe_retries[m] < max_retries
       THEN /\ pe_state' = [pe_state EXCEPT ![m] = "queued"]
            /\ pe_countdown' = [pe_countdown EXCEPT ![m] = Pow2(pe_retries[m])]
            /\ pe_retries' = [pe_retries EXCEPT ![m] = @ + 1]
       ELSE /\ pe_state' = [pe_state EXCEPT ![m] = "failed"]
            /\ UNCHANGED <<pe_countdown, pe_retries>>

\* process_email, up to the first wait: read the tenant policy, publish
\* enrich_nlp and block in .get(timeout=10)
process_email_start(m, db_ok) ==
  /\ pe_state[m] = "queued"
  /\ pe_state' = [pe_state EXCEPT ![m] = "nlp_wait"]
  /\ cold_threshold' = [cold_threshold EXCEPT ![m] =
        DictGet(get_active_policy(msg_tenant[m], db_ok), "cold_threshold", 40)]
  /\ warm_threshold' = [warm_threshold EXCEPT ![m] =
        DictGet(get_active_policy(msg_tenant[m], db_ok), "warm_threshold", 75)]
  /\ UNCHANGED <<ingested, msg_priority, msg_urls, msg_tenant, flagged,
                 pe_retries, pe_queue, pe_priority, pe_countdown, text_score,
                 pe_category, abort_cause, pd_queue, ed_queue, email_decisions,
                 soc_alerts, audit_log, enforced, not_found, redeliveries>>
  /\ pe_attempts' = [pe_attempts EXCEPT ![m] = @ + 1]
  /\ UNCHANGED <<pe_nlp_result, pe_risk_eval>>

\* {} and d[key] = value on a dict
EmptyDict == [x \in {} |-> 0]
DictSet(d, key, value) ==
  [k \in DOMAIN d \cup {key} |-> IF k = key THEN value ELSE d[k]]

\* what detect_anomalies returns to process_email: None (no finding, the
\* engine raised, or anomaly detection is not available) or a finding, here
\* one that should_escalate_anomaly escalates
AnomalyResults ==
  {NoFinding,
   [anomaly_type |-> "excessive_urls", confidence |-> 80,
    detection_method |-> "pattern"]}

\* mutant: an escalated anomaly quarantines the message
score_and_persist_escalating(m, text, url_result, anomaly_result) ==
  LET risk_eval == calculate_risk(text, [x \in {} |-> 0], url_result, {})
      risk_score == DictGet(risk_eval, "risk_score", 0)
      risk_findings == DictGet(risk_eval, "findings", EmptyDict)
      findings == IF anomaly_result # NoFinding
                    THEN DictSet(risk_findings, "anomaly", anomaly_result)
                    ELSE risk_findings
      category == IF should_escalate_anomaly(anomaly_result) THEN "HOT"
                  ELSE IF risk_score >= warm_threshold[m] THEN "HOT"
                  ELSE IF risk_score >= cold_threshold[m] THEN "WARM"
                  ELSE "COLD"
      decision == IF category = "HOT" THEN "QUARANTINE" ELSE "ALLOW"
  IN /\ pe_category' = [pe_category EXCEPT ![m] = category]
     /\ pd_queue' = pd_queue \cup
           {[email_id |-> m, attempt |-> pe_retries[m], risk_score |-> risk_score,
             category |-> category, decision |-> decision,
             findings |-> findings]}
     /\ pe_state' = [pe_state EXCEPT ![m] = "persist_enqueued"]
     /\ pe_risk_eval' = [pe_risk_eval EXCEPT ![m] = risk_eval]

\* process_email from calculate_risk to persist_decision.apply_async,
\* the anomaly stage in between adding its finding to findings
score_and_persist(m, text, url_result, anomaly_result) ==
  LET risk_eval == calculate_risk(text, [x \in {} |-> 0], url_result, {})
      risk_score == DictGet(risk_eval, "risk_score", 0)
      risk_findings == DictGet(risk_eval, "findings", EmptyDict)
      findings == IF anomaly_result # NoFinding
                    THEN DictSet(risk_findings, "anomaly", anomaly_result)
                    ELSE risk_findings
      category == IF risk_score >= warm_threshold[m] THEN "HOT"
                  ELSE IF risk_score >= cold_threshold[m] THEN "WARM"
                  ELSE "COLD"
      decision == IF category = "HOT" THEN "QUARANTINE" ELSE "ALLOW"
  IN /\ pe_category' = [pe_category EXCEPT ![m] = category]
     /\ pd_queue' = pd_queue \cup
           {[email_id |-> m, attempt |-> pe_retries[m], risk_score |-> risk_score,
             category |-> category, decision |-> decision,
             findings |-> findings]}
     /\ pe_state' = [pe_state EXCEPT ![m] = "persist_enqueued"]
     /\ pe_risk_eval' = [pe_risk_eval EXCEPT ![m] = risk_eval]

\* the enrich_nlp result arrives within the wait; with no URLs the attempt
\* goes straight on to scoring
process_email_nlp(m, nlp_result, anomaly_result) ==
  /\ pe_state[m] = "nlp_wait"
  /\ pe_nlp_result' = [pe_nlp_result EXCEPT ![m] = nlp_result]
  /\ IF msg_urls[m]
       THEN /\ text_score' = [text_score EXCEPT ![m] =
                                DictGet(nlp_result, "text_ml_score", 0)]
            /\ pe_state' = [pe_state EXCEPT ![m] = "url_wait"]
            /\ UNCHANGED <<pe_category, pd_queue, pe_risk_eval>>
       ELSE /\ score_and_persist(m,
                                 DictGet(nlp_result, "text_ml_score", 0),
                                 [score |-> 0, signals |-> {}],
                                 anomaly_result)
            /\ UNCHANGED text_score
  /\ UNCHANGED <<ingested, msg_priority, msg_urls, msg_tenant, flagged,
                 pe_retries, pe_queue, pe_priority, pe_countdown,
                 cold_threshold, warm_threshold, abort_cause, ed_queue,
                 email_decisions, soc_alerts, audit_log, enforced, not_found,
                 redeliveries>>
  /\ UNCHANGED pe_attempts

\* the enrich_urls result arrives within the wait
process_email_urls(m, url_result, anomaly_result) ==
  /\ pe_state[m] = "url_wait"
  /\ score_and_persist(m, text_score[m], url_result, anomaly_result)
  /\ UNCHANGED <<ingested, msg_priority, msg_urls, msg_tenant, flagged,
                 pe_retries, pe_queue, pe_priority, pe_countdown,
                 cold_threshold, warm_threshold, text_score, abort_cause,
                 ed_queue, email_decisions, soc_alerts, audit_log, enforced,
                 not_found, redeliveries>>
  /\ UNCHANGED pe_attempts
  /\ UNCHANGED pe_nlp_result

\* .get(timeout=10) on an enrichment result expires: celery's TimeoutError
\* is caught by "except Exception" and the attempt ends in self.retry
process_email_wait_expires(m) ==
  /\ pe_state[m] \in {"nlp_wait", "url_wait"}
  /\ retry(m, "enrichment_timeout")
  /\ UNCHANGED <<ingested, msg_priority, msg_urls, msg_tenant, flagged,
                 pe_queue, pe_priority, pd_queue, ed_queue, email_decisions,
                 soc_alerts, audit_log, enforced, not_found, redeliveries>>
  /\ UNCHANGED pe_attempts

\* any other exception inside the try block (broker error on apply_async,
\* SoftTimeLimitExceeded, ...) also ends the attempt in self.retry
process_email_raises(m) ==
  /\ pe_state[m] \in {"nlp_wait", "url_wait", "persist_enqueued"}
  /\ retry(m, "exception")
  /\ UNCHANGED <<ingested, msg_priority, msg_urls, msg_tenant, flagged,
                 pe_queue, pe_priority, pd_queue, ed_queue, email_decisions,
                 soc_alerts, audit_log, enforced, not_found, redeliveries>>
  /\ UNCHANGED pe_attempts

\* process_email after persist_decision.apply_async: publish
\* enforce_decision for WARM and HOT, and return
process_email_finish(m) ==
  /\ pe_state[m] = "persist_enqueued"
  /\ ed_queue' = IF pe_category[m] \in {"WARM", "HOT"}
                   THEN ed_queue \cup
                          {[email_id |-> m, attempt |-> pe_retries[m],
                            category |-> pe_category[m],
                            decision |-> IF pe_category[m] = "HOT"
                                           THEN "QUARANTINE" ELSE "ALLOW",
                            retries |-> 0]}
                   ELSE ed_queue
  /\ pe_state' = [pe_state EXCEPT ![m] = "succeeded"]
  /\ text_score' = [text_score EXCEPT ![m] = 0]
  /\ pe_nlp_result' = [pe_nlp_result EXCEPT ![m] = NoRow]
  /\ pe_risk_eval' = [pe_risk_eval EXCEPT ![m] = NoRow]
  /\ cold_threshold' = [cold_threshold EXCEPT ![m] = 0]
  /\ warm_threshold' = [warm_threshold EXCEPT ![m] = 0]
  /\ pe_category' = [pe_category EXCEPT ![m] = "none"]
  /\ UNCHANGED <<ingested, msg_priority, msg_urls, msg_tenant, flagged,
                 pe_retries, pe_queue, pe_priority, pe_countdown, abort_cause,
                 pd_queue, email_decisions, soc_alerts, audit_log, enforced,
                 not_found, redeliveries>>
  /\ UNCHANGED pe_attempts

\* email_decisions.id is the table's primary key: an INSERT of an
\* identifier that already has a row raises a unique violation
primary_key_taken(id) == Len(email_decisions[id]) > 0

\* mutant: a duplicate decision row is skipped silently (ON CONFLICT DO
\* NOTHING on the first INSERT only) and the rest of the transaction commits
persist_rows_skip_duplicate(t) ==
  /\ email_decisions' = [email_decisions EXCEPT ![t.email_id] =
        IF primary_key_taken(t.email_id) THEN @
        ELSE Append(@, [id |-> t.email_id, risk_score |-> t.risk_score,
                        category |-> t.category, decision |-> t.decision,
                        findings |-> t.findings])]
  /\ soc_alerts' = [soc_alerts EXCEPT ![t.email_id] =
        IF t.category \in {"WARM", "HOT"}
          THEN Append(@, [email_id |-> t.email_id,
                          category |-> t.category, status |-> "OPEN"])
          ELSE @]
  /\ audit_log' = [audit_log EXCEPT ![t.email_id] = @ + 1]

\* mutant: the alert row is written for HOT only
persist_rows_alert_hot_only(t) ==
  IF primary_key_taken(t.email_id)
    THEN UNCHANGED <<email_decisions, soc_alerts, audit_log>>
    ELSE /\ email_decisions' = [email_decisions EXCEPT ![t.email_id] =
               Append(@, [id |-> t.email_id, risk_score |-> t.risk_score,
                          category |-> t.category, decision |-> t.decision,
                          findings |-> t.findings])]
         /\ soc_alerts' = [soc_alerts EXCEPT ![t.email_id] =
               IF t.category \in {"HOT"}
                 THEN Append(@, [email_id |-> t.email_id,
                                 category |-> t.category, status |-> "OPEN"])
                 ELSE @]
         /\ audit_log' = [audit_log EXCEPT ![t.email_id] = @ + 1]

\* the rows one persist_decision transaction adds; an exception from any
\* statement leaves the transaction uncommitted and nothing is added
persist_rows(t) ==
  IF primary_key_taken(t.email_id)
    THEN UNCHANGED <<email_decisions, soc_alerts, audit_log>>
    ELSE /\ email_decisions' = [email_decisions EXCEPT ![t.email_id] =
               Append(@, [id |-> t.email_id, risk_score |-> t.risk_score,
                          category |-> t.category, decision |-> t.decision,
                          findings |-> t.findings])]
         /\ soc_alerts' = [soc_alerts EXCEPT ![t.email_id] =
               IF t.category \in {"WARM", "HOT"}
                 THEN Append(@, [email_id |-> t.email_id,
                                 category |-> t.category, status |-> "OPEN"])
                 ELSE @]
         /\ audit_log' = [audit_log EXCEPT ![t.email_id] = @ + 1]

\* persist_decision, one delivery of task t.  delivery "commit": the
\* transaction runs and the task is acknowledged (also when it raised);
\* "db_error": the connection or a statement fails, nothing is committed, the
\* exception is re-raised and the task is acknowledged as failed;
\* "ack_lost": the transaction runs but the worker is lost before the late
\* acknowledgement, so the broker redelivers the task.
persist_decision(t, delivery) ==
  /\ t \in pd_queue
  /\ CASE delivery = "commit" ->
            /\ persist_rows(t)
            /\ pd_queue' = pd_queue \ {t}
            /\ UNCHANGED redeliveries
       [] delivery = "db_error" ->
            /\ pd_queue' = pd_queue \ {t}
            /\ UNCHANGED <<email_decisions, soc_alerts, audit_log, redeliveries>>
       [] delivery = "ack_lost" ->
            /\ redeliveries < MaxRedeliveries
            /\ redeliveries' = redeliveries + 1
            /\ persist_rows(t)
            /\ UNCHANGED pd_queue
  /\ UNCHANGED <<ingested, msg_priority, msg_urls, msg_tenant, flagged,
                 pe_state, pe_retries, pe_queue, pe_priority, pe_countdown,
                 cold_threshold, warm_threshold, text_score, pe_category,
                 abort_cause, ed_queue, enforced, not_found>>
  /\ UNCHANGED pe_attempts
  /\ UNCHANGED <<pe_nlp_result, pe_risk_eval>>

\* enforce_decision, one delivery of task t: look the decision up; without a
\* row return False; with a row carry out the action.  A database exception
\* is retried (self.retry) while self.request.retries < 3.
enforce_decision(t, db_ok) ==
  /\ t \in ed_queue
  /\ IF db_ok
       THEN /\ ed_queue' = ed_queue \ {t}
            /\ IF Len(email_decisions[t.email_id]) = 0
                 THEN /\ not_found' = [not_found EXCEPT ![t.email_id] = @ + 1]
                      /\ UNCHANGED enforced
                 ELSE /\ enforced' = [enforced EXCEPT ![t.email_id] = @ + 1]
                      /\ UNCHANGED not_found
       ELSE /\ ed_queue' = IF t.retries < 3
                             THEN (ed_queue \ {t}) \cup
                                    {[t EXCEPT !.retries = @ + 1]}
                             ELSE ed_queue \ {t}
            /\ UNCHANGED <<enforced, not_found>>
  /\ UNCHANGED <<ingested, msg_priority, msg_urls, msg_tenant, flagged,
                 pe_state, pe_retries, pe_queue, pe_priority, pe_countdown,
                 cold_threshold, warm_threshold, text_score, pe_category,
                 abort_cause, pd_queue, email_decisions, soc_alerts, audit_log,
                 redeliveries>>
  /\ UNCHANGED pe_attempts
  /\ UNCHANGED <<pe_nlp_result, pe_risk_eval>>

\* requests arriving at the ingestion endpoint, no worker running
Ingest_Next ==
  \E m \in Msgs, priority \in {"normal", "high"}, has_urls \in BOOLEAN,
     tenant \in Tenants, has_user_agent \in BOOLEAN, header_count \in {3, 8} :
       ingest_email(m, priority, has_urls, tenant, has_user_agent, header_count)

\* ingestion followed by the workers of the emails and enforcement queues
\* (the workers do not read the priority the task was published with; it is
\* followed in Ingest_Next)
Pipe_Next ==
  \/ \E m \in PipeMsgs, has_urls \in BOOLEAN, tenant \in Tenants :
          ingest_email(m, "normal", has_urls, tenant, TRUE, 8)
  \/ \E m \in PipeMsgs, db_ok \in BOOLEAN : process_email_start(m, db_ok)
  \/ \E m \in PipeMsgs, nlp_result \in NlpResults,
        anomaly_result \in AnomalyResults :
          process_email_nlp(m, nlp_result, anomaly_result)
  \/ \E m \in PipeMsgs, url_result \in UrlResults,
        anomaly_result \in AnomalyResults :
          process_email_urls(m, url_result, anomaly_result)
  \/ \E m \in PipeMsgs : process_email_wait_expires(m)
  \/ \E m \in PipeMsgs : process_email_raises(m)
  \/ \E m \in PipeMsgs : process_email_finish(m)
  \/ \E t \in pd_queue, delivery \in {"commit", "db_error", "ack_lost"} :
        persist_decision(t, delivery)
  \/ \E t \in ed_queue, db_ok \in BOOLEAN : enforce_decision(t, db_ok)

(***************************************************************************)
(* Claims about the circuit breaker                                        *)
(***************************************************************************)

\* C1: starting CLOSED, once failure_threshold calls in a row have failed the
\* breaker is no longer CLOSED (the failing call that completes the run opens
\* it), and every call() begun while the breaker is OPEN and fewer than
\* recovery_timeout seconds after it opened is rejected with
\* CircuitBreakerOpen, leaves the breaker OPEN and does not invoke the
\* wrapped function.
C1_FailFast ==
  /\ [](state = "CLOSED" => streak < failure_threshold)
  /\ [][(streak' > streak /\ streak' >= failure_threshold) => state' = "OPEN"]_vars
  /\ [][\A c \in Callers :
          (/\ call_seq'[c] # call_seq[c]
           /\ state = "OPEN"
           /\ now - open_since < recovery_timeout)
          => (/\ outcome'[c] = "CircuitBreakerOpen"
              /\ pc'[c] = "idle"
              /\ state' = "OPEN"
              /\ rejected_calls' = rejected_calls + 1
              /\ invocations' = invocations)]_vars

C1_Witness ==
  /\ state = "OPEN"
  /\ streak >= failure_threshold
  /\ now - open_since < recovery_timeout
  /\ \E c \in Callers : outcome[c] = "CircuitBreakerOpen" /\ pc[c] = "idle"

\* C2: while the breaker is HALF_OPEN and a probe admitted in HALF_OPEN is
\* still in flight, every other caller's call() is rejected with
\* CircuitBreakerOpen and the wrapped function is not invoked.
C2_SingleProbe ==
  [][\A c \in Callers :
       (/\ call_seq'[c] # call_seq[c]
        /\ state = "HALF_OPEN"
        /\ \E d \in Callers \ {c} :
              pc[d] = "running" /\ admitted_in[d] = "HALF_OPEN")
       => (/\ outcome'[c] = "CircuitBreakerOpen"
           /\ pc'[c] = "idle"
           /\ invocations' = invocations)]_vars

C11_HalfOpenFailureReopens ==
  /\ [][(state = "HALF_OPEN" /\ failed_calls' = failed_calls + 1)
          => (/\ state' = "OPEN"
              /\ opened_time' = now
              /\ open_since' = now
              /\ opened_from' = "HALF_OPEN")]_vars
  /\ [][\A c \in Callers :
          (/\ call_seq'[c] # call_seq[c]
           /\ state = "OPEN"
           /\ opened_from = "HALF_OPEN"
           /\ now - open_since < recovery_timeout)
          => (/\ outcome'[c] = "CircuitBreakerOpen"
              /\ pc'[c] = "idle"
              /\ state' = "OPEN"
              /\ invocations' = invocations)]_vars

C11_Witness ==
  /\ state = "OPEN"
  /\ opened_from = "HALF_OPEN"
  /\ rejected_since_open
  /\ now - open_since < recovery_timeout
  /\ \E c \in Callers : outcome[c] = "CircuitBreakerOpen" /\ pc[c] = "idle"

\* C12: a call() begun while the breaker is OPEN and at least
\* recovery_timeout seconds after it opened is admitted: the breaker becomes
\* HALF_OPEN, the wrapped function is invoked and the call is not counted as
\* rejected.  (With C1: failure_threshold failures open the breaker, a call
\* before the recovery period has passed is rejected, one after it is the
\* HALF_OPEN probe.)
C12_AdmittedAfterRecovery ==
  [][\A c \in Callers :
       (/\ call_seq'[c] # call_seq[c]
        /\ state = "OPEN"
        /\ now - open_since >= recovery_timeout)
       => (/\ state' = "HALF_OPEN"
           /\ pc'[c] = "running"
           /\ admitted_in'[c] = "HALF_OPEN"
           /\ invocations' = invocations + 1
           /\ rejected_calls' = rejected_calls
           /\ outcome'[c] # "CircuitBreakerOpen" \/ outcome'[c] = outcome[c])]_vars

C12_Witness ==
  /\ state = "HALF_OPEN"
  /\ failed_calls = failure_threshold
  /\ rejected_calls = 1
  /\ rejected_since_open
  /\ now - open_since >= recovery_timeout
  /\ \E c \in Callers : pc[c] = "running" /\ admitted_in[c] = "HALF_OPEN"

\* C13: a success recorded while the breaker is CLOSED sets the
\* consecutive-failure count to 0 and leaves it CLOSED; while CLOSED the
\* count equals the number of failures recorded since the last recorded
\* success; and CLOSED is left for OPEN only by the step that records the
\* failure_threshold-th failure in a row.
C13_ClosedSuccessResets ==
  /\ [][(state = "CLOSED" /\ successful_calls' = successful_calls + 1)
          => (failure_count' = 0 /\ state' = "CLOSED")]_vars
  /\ [](state = "CLOSED" => failure_count = streak)
  /\ [][(state = "CLOSED" /\ state' = "OPEN")
          => (/\ failed_calls' = failed_calls + 1
              /\ streak' >= failure_threshold)]_vars

C13_Witness ==
  /\ state = "OPEN"
  /\ opened_from = "CLOSED"
  /\ successful_calls = 1
  /\ failed_calls = failure_threshold + 1
  /\ streak = failure_threshold
  /\ rejected_calls = 0

\* C14: no caller holds the breaker's lock while its wrapped function runs
\* (the lock is free whenever a call is inside the wrapped function); a step
\* that changes the breaker's state is a step of a caller that could take
\* the lock; and while one caller is inside the wrapped function, another
\* idle caller's admission check can be carried out at once.
C14_LockNotHeldDuringCall ==
  /\ [](\A c \in Callers : pc[c] = "running" => lock = 0)
  /\ [][state' # state
          => \E c \in Callers : lock \in {0, c} /\ (pc'[c] # pc[c] \/ call_seq'[c] # call_seq[c])]_vars
  /\ [](\A c, d \in Callers :
          (/\ c # d
           /\ pc[d] = "running"
           /\ pc[c] = "idle"
           /\ call_seq[c] < MaxCallsPerCaller)
          => ENABLED call(c))

\* two callers inside the wrapped function at once: the later of the two
\* passed its admission check while the earlier was inside
C14_Witness ==
  \E c, d \in Callers :
    /\ c # d
    /\ pc[c] = "running"
    /\ pc[d] = "running"
    /\ lock = 0
    /\ state = "HALF_OPEN"
    /\ admitted_in[c] = "HALF_OPEN"
    /\ admitted_in[d] = "HALF_OPEN"

\* C17: whatever way a call of the NLP collaborator through the
\* nlp_service breaker ends (response, HTTP error or timeout, rejection by
\* the OPEN breaker), and also with the service disabled, call_nlp_service
\* hands its caller a fragment and raises nothing; for every ending other
\* than a response the fragment's text_ml_score is 0.
C17_NlpNeverRaises ==
  /\ \A c \in Callers :
       outcome[c] # "none"
       => (/\ "raised" \notin DOMAIN nlp_reply[c]
           /\ "text_ml_score" \in DOMAIN nlp_reply[c]
           /\ outcome[c] # "returned" => nlp_reply[c].text_ml_score = 0)
  /\ \A o \in {"returned", "raised", "CircuitBreakerOpen"} :
       LET r == call_nlp_service(FALSE, o, NlpServiceResponse)
       IN "raised" \notin DOMAIN r /\ r.text_ml_score = 0

C17_Witness ==
  \E c, d \in Callers :
    /\ outcome[c] = "CircuitBreakerOpen"
    /\ nlp_reply[c] = [text_ml_score |-> 0, model_version |-> "error"]
    /\ outcome[d] = "raised"
    /\ nlp_reply[d] = [text_ml_score |-> 0, model_version |-> "error"]

(***************************************************************************)
(* Claims about admission control                                          *)
(***************************************************************************)
\* the requests counted in epoch e of key k
CountedIn(k, e) ==
  {r \in Requests : req_pc[r] # "new" /\ req_scope[r] = k /\ req_epoch[r] = e}

C8_WindowExpiry ==
  /\ [][\A k \in {"key", "tenant"} :
          redis_ttl'[k] > redis_ttl[k]
          => (/\ redis_ttl[k] = NoTtl
              /\ redis_ttl'[k] = UnitSeconds(LimitUnit(k))
              /\ \E r \in Requests :
                    /\ req_pc[r] = "expire" /\ req_pc'[r] # "expire"
                    /\ req_scope[r] = k /\ current[r] = 1)]_vars
  /\ [](\A r \in Requests :
          (req_pc[r] # "new" /\ req_scope[r] \in {"key", "tenant"})
          => (/\ current[r] > 1
                    => req_at[r] - req_first[r]
                          < UnitSeconds(LimitUnit(req_scope[r]))
              /\ (current[r] = 1 /\ req_pc[r] \in {"handler", "rejected"})
                    => req_pc[r] = "handler"))

\* the part of C8 that does not depend on the first request completing
C8_ExpirySetOnce ==
  [][\A k \in {"key", "tenant"} :
       redis_ttl'[k] > redis_ttl[k]
       => (/\ redis_ttl[k] = NoTtl
           /\ redis_ttl'[k] = UnitSeconds(LimitUnit(k))
           /\ \E r \in Requests :
                 /\ req_pc[r] = "expire" /\ req_pc'[r] # "expire"
                 /\ req_scope[r] = k /\ current[r] = 1)]_vars

(***************************************************************************)
(* Claims about the task pipeline                                          *)
(***************************************************************************)
\* no task of message m is queued or running
Quiescent(m) ==
  /\ pe_state[m] \in {"succeeded", "failed"}
  /\ \A t \in pd_queue : t.email_id # m
  /\ \A t \in ed_queue : t.email_id # m

C5_SafeDefaultRecorded ==
  \A m \in Msgs :
    (pe_state[m] = "failed" /\ Quiescent(m)) => Len(email_decisions[m]) >= 1

\* C6: no attempt of process_email is aborted (and retried) because the wait
\* for an enrichment result expired.
C6_EnrichmentNeverAborts ==
  \A m \in Msgs : abort_cause[m] # "enrichment_timeout"

\* C9: of the ingestion requests of one network address within one minute,
\* at most the per-address limit get a process_email task published.
C9_AdmissionBeforeEnqueue ==
  Cardinality({m \in Msgs : pe_state[m] # "absent"}) <= LimitCount

\* C15 (first half): a message ingested with priority high has its
\* process_email task on the high-priority lane, the queue "high_priority".
C15_HighPriorityLane ==
  \A m \in Msgs :
    (ingested[m] /\ msg_priority[m] = "high") => pe_queue[m] = "high_priority"

C16_AlertIffWarmOrHot ==
  /\ [][\A m \in Msgs :
          /\ email_decisions'[m] # email_decisions[m]
                => (soc_alerts'[m] # soc_alerts[m]
                      <=> email_decisions'[m][Len(email_decisions'[m])].category
                             \in {"WARM", "HOT"})
          /\ soc_alerts'[m] # soc_alerts[m]
                => (/\ email_decisions'[m] # email_decisions[m]
                    /\ Len(soc_alerts'[m]) = Len(soc_alerts[m]) + 1
                    /\ soc_alerts'[m][Len(soc_alerts'[m])].category
                          = email_decisions'[m][Len(email_decisions'[m])].category)]_vars
  /\ [](\A m \in Msgs :
          (Len(email_decisions[m]) = 1 /\ email_decisions[m][1].category = "COLD")
          => Len(soc_alerts[m]) = 0)

C16_Witness ==
  \E m \in Msgs :
    /\ Len(email_decisions[m]) = 1
    /\ email_decisions[m][1].category = "WARM"
    /\ Len(soc_alerts[m]) = 1
    /\ soc_alerts[m][1].category = "WARM"
    /\ audit_log[m] = 1

(***************************************************************************)
(* Claims about the risk engines                                           *)
(***************************************************************************)

\* C19: whenever a message with a non-empty malware_hits list has been
\* scored, the score either engine returns is at least 90 on the 0-100
\* scale (0.9 on the 0-1 scale), whatever the other inputs are.
C19_MalwareFloor ==
  (re_scanner_eval # NotScored /\ re_malware_hits # {})
  => (re_scanner_eval.risk_score >= 90 /\ re_backend_eval.score >= 90)

\* the part of C19 that concerns backend/scanner/risk_engine.py alone
C19_BackendFloor ==
  (re_backend_eval # NotScored /\ re_malware_hits # {})
  => re_backend_eval.score >= 90

\* C20: scoring a message again with a higher text_ml_score or a higher URL
\* score, the malware hits and the heuristic inputs being the same, never
\* gives a lower score, in either engine.
C20_Monotone ==
  [][(/\ re_scanner_eval # NotScored
      /\ re_scanner_eval' # NotScored
      /\ re_text_ml_score' >= re_text_ml_score
      /\ re_url_ml_score' >= re_url_ml_score
      /\ re_malware_hits' = re_malware_hits
      /\ re_text_findings' = re_text_findings
      /\ re_url_results' = re_url_results)
     => (/\ re_scanner_eval'.risk_score >= re_scanner_eval.risk_score
         /\ re_backend_eval'.score >= re_backend_eval.score)]_vars

\* a message scored again with its text score raised to 0.5, the URL score
\* being 0.2: the scanner engine's 24 is above what any lower text score gave
C20_Witness ==
  /\ re_rescored = "text"
  /\ re_scanner_eval # NotScored
  /\ re_text_ml_score = 50
  /\ re_url_ml_score = 20
  /\ re_url_results = <<>>
  /\ re_text_findings = [score |-> 0, signals |-> {}]
  /\ re_malware_hits = {}
  /\ re_scanner_eval.risk_score = 24
  /\ re_backend_eval.score = 28

\* C21: the scanner engine's calculate_risk returns verdict SAFE iff the
\* score is below 30, SUSPICIOUS iff it is at least 30 and below 70, and
\* MALICIOUS iff it is at least 70; for one high-risk URL result, two
\* heuristic text signals, no malware hits and both ML scores 0.0 it returns
\* score 37 and verdict SUSPICIOUS.
C21_VerdictThresholds ==
  re_scanner_eval # NotScored
  => (/\ re_scanner_eval.verdict = "SAFE" <=> re_scanner_eval.risk_score < 30
      /\ re_scanner_eval.verdict = "SUSPICIOUS"
           <=> (re_scanner_eval.risk_score >= 30
                /\ re_scanner_eval.risk_score < 70)
      /\ re_scanner_eval.verdict = "MALICIOUS"
           <=> re_scanner_eval.risk_score >= 70
      /\ (/\ re_url_results = <<[risk |-> "high"]>>
          /\ Cardinality(re_text_findings.signals) = 2
          /\ re_malware_hits = {}
          /\ re_text_ml_score = 0
          /\ re_url_ml_score = 0)
         => (/\ re_scanner_eval.risk_score = 37
             /\ re_scanner_eval.verdict = "SUSPICIOUS"))

\* the message of the example has been scored: one high-risk URL result, two
\* heuristic text signals, no malware hit, both ML scores 0.0
C21_Witness ==
  /\ re_scanner_eval # NotScored
  /\ re_url_results = <<[risk |-> "high"]>>
  /\ Cardinality(re_text_findings.signals) = 2
  /\ re_malware_hits = {}
  /\ re_text_ml_score = 0
  /\ re_url_ml_score = 0
  /\ re_scanner_eval.risk_score = 37

(***************************************************************************)
(* Claims about categorisation, retries and enrichment in process_email    *)
(***************************************************************************)

\* C22: a running attempt of process_email for a tenant without an active
\* policy categorises with the thresholds 30 and 70: a score below 30 gives
\* COLD, a score from 30 to 69 gives WARM, a score of 70 or more gives HOT.
C22_DefaultThresholds ==
  \A m \in Msgs :
    (/\ pe_state[m] \in {"nlp_wait", "url_wait"}
     /\ PolicyRow(msg_tenant[m]) = NoRow)
    => \A risk_score \in 0..100 :
         (IF risk_score >= warm_threshold[m] THEN "HOT"
          ELSE IF risk_score >= cold_threshold[m] THEN "WARM"
          ELSE "COLD")
         = (IF risk_score >= 70 THEN "HOT"
            ELSE IF risk_score >= 30 THEN "WARM"
            ELSE "COLD")

enrich_nlp_in_flight(m) == pe_state[m] = "nlp_wait"
enrich_urls_in_flight(m) == pe_state[m] = "url_wait"

\* C29 (first half): while the NLP enrichment of a message with URLs is in
\* flight, its URL-analysis enrichment has been issued as well, so that the
\* two are in flight together.
C29_ConcurrentEnrichment ==
  \A m \in Msgs :
    (enrich_nlp_in_flight(m) /\ msg_urls[m]) => enrich_urls_in_flight(m)

\* the part of C29 that holds: a persist_decision task of an attempt exists
\* only when no enrichment of the message is in flight any more
C29_ScoringAfterEnrichment ==
  \A m \in Msgs :
    (\E t \in pd_queue : t.email_id = m /\ t.attempt = pe_retries[m])
    => (~enrich_nlp_in_flight(m) /\ ~enrich_urls_in_flight(m))

\* C30: when process_email scores a message with a fallback fragment in
\* place of the NLP scorer's result, the findings it hands to
\* persist_decision (which stores them with the decision) hold an entry,
\* other than the anomaly finding, recording that the scorer was
\* unavailable.
C30_FallbackRecorded ==
  [][\A t \in pd_queue' \ pd_queue :
       pe_nlp_result'[t.email_id].model_version \in {"fallback", "error"}
       => \E k \in DOMAIN t.findings : k # "anomaly"]_vars

(***************************************************************************)
(* Claims about anomaly detection                                          *)
(***************************************************************************)

\* C23: whatever messages have been analysed, the statistical detector
\* (z-score and IQR) gives no finding for a feature whose history holds
\* fewer than 10 samples when the message is analysed, whatever the
\* current value is; with every history that short it gives no finding at
\* all.
C23_MinimumSamples ==
  [][total_analyzed' = total_analyzed + 1
     => (/\ IsFinding(an_statistical')
              => Len(feature_history[an_statistical'.details.feature]) >= 10
         /\ (\A f \in Features : Len(feature_history[f]) < 10)
              => an_statistical' \in {NoFinding, NotConsulted})]_vars

\* a 100-character body, twenty times the usual length, analysed against
\* fewer than 10 samples: the statistical detector was consulted, returned
\* nothing and took the sample
C23_Witness ==
  /\ an_email # NoFinding
  /\ an_email.body = 100
  /\ an_statistical = NoFinding
  /\ Len(an_arrived["body_length"]) \in 2..10
  /\ an_arrived["body_length"][Len(an_arrived["body_length"])] = 100

\* C24: analyze consults the pattern detector, then the statistical
\* detector, then the behavioral detector, and returns the first finding: a
\* message above a pattern threshold always yields the pattern finding, a
\* detector is consulted only when those before it returned nothing, and a
\* behavioral finding is returned only when neither of the other two fired.
C24_DetectorOrder ==
  an_email # NoFinding
  => (/\ (\/ DictGet(an_email, "risk_score", 0) > RISK_SCORE_ANOMALY_THRESHOLD
          \/ DictGet(an_email, "urls", 0) > URL_COUNT_ANOMALY_THRESHOLD
          \/ DictGet(an_email, "attachments", 0) > ATTACHMENT_ANOMALY_THRESHOLD)
         => (/\ IsFinding(an_result)
             /\ an_result.detection_method = "pattern"
             /\ an_result = an_pattern)
      /\ an_statistical # NotConsulted => an_pattern = NoFinding
      /\ an_behavioral # NotConsulted
           => (an_pattern = NoFinding /\ an_statistical = NoFinding)
      /\ (IsFinding(an_result) /\ an_result = an_behavioral)
           => (an_pattern = NoFinding /\ an_statistical = NoFinding)
      /\ IsFinding(an_pattern) => an_result = an_pattern
      /\ IsFinding(an_statistical) => an_result = an_statistical)

\* a message with 11 URLs analysed against ten samples without any URL: the
\* statistical detector would have had an outlier to look at, and the
\* pattern finding is what analyze returned
C24_Witness ==
  /\ an_email # NoFinding
  /\ DictGet(an_email, "urls", 0) = 11
  /\ Len(feature_history["url_count"]) >= 10
  /\ \A i \in DOMAIN feature_history["url_count"] :
       feature_history["url_count"][i] = 0
  /\ IsFinding(an_result)
  /\ an_result.anomaly_type = "excessive_urls"
  /\ an_statistical = NotConsulted
  /\ an_behavioral = NotConsulted

\* C25: whatever messages have been analysed, each feature history of the
\* statistical detector holds at most window_size samples, and they are the
\* most recent samples passed to add_sample, in arrival order (so that a
\* sample added to a full history evicted exactly the oldest one).
C25_BoundedHistory ==
  \A f \in Features :
    /\ Len(feature_history[f]) <= window_size
    /\ Len(feature_history[f]) = Min(Len(an_arrived[f]), window_size)
    /\ \A i \in DOMAIN feature_history[f] :
         feature_history[f][i]
           = an_arrived[f][Len(an_arrived[f]) - Len(feature_history[f]) + i]

\* more samples have arrived than a history holds, and the newest one (an
\* 8-character body among 5-character ones) sits at the end of a full
\* history
C25_Witness ==
  /\ Len(an_arrived["body_length"]) > window_size
  /\ Len(feature_history["body_length"]) = window_size
  /\ feature_history["body_length"][window_size] = 8
  /\ feature_history["body_length"][1] = 5

\* C26: for the message analysed last, each detector that was consulted
\* returned either nothing or one finding whose confidence lies in [0,1];
\* in particular none of them raised.
C26_OneFindingInUnitInterval ==
  \A r \in {an_pattern, an_statistical, an_behavioral} :
    \/ r \in {NotConsulted, NoFinding}
    \/ (IsFinding(r) /\ r.confidence >= 0 /\ r.confidence <= 100)

\* the part of C26 that holds: a finding's confidence lies in [0,1]
C26_ConfidenceInUnitInterval ==
  \A r \in {an_pattern, an_statistical, an_behavioral} :
    IsFinding(r) => (r.confidence >= 0 /\ r.confidence <= 100)

\* C27: asked about a finding, should_escalate_anomaly answers true if and
\* only if the finding's confidence is at least the configured threshold or
\* its type is one of sender_behavior_change, high_new_sender_rate,
\* extreme_risk.
C27_EscalationRule ==
  an_info # NoFinding
  => (an_escalated
        <=> (\/ an_info.confidence >= ANOMALY_CONFIDENCE_THRESHOLD
             \/ an_info.anomaly_type \in {"sender_behavior_change",
                                          "high_new_sender_rate",
                                          "extreme_risk"}))

\* a finding of a type outside the escalation set whose confidence is
\* exactly the threshold (16 URLs: 16/20 = 0.8) has been escalated
C27_Witness ==
  /\ an_info # NoFinding
  /\ an_info.anomaly_type = "excessive_urls"
  /\ an_info.confidence = ANOMALY_CONFIDENCE_THRESHOLD
  /\ an_escalated

(***************************************************************************)
(* Claims about calls that complete in a later breaker state               *)
(***************************************************************************)
\* C32: when a call that was admitted while the breaker was CLOSED completes
\* while the breaker is HALF_OPEN, the HALF_OPEN success count is not
\* incremented and the breaker does not go from HALF_OPEN to OPEN.
C32_OnlyProbesCount ==
  [][\A c \in Callers :
       (/\ pc[c] = "running"
        /\ pc'[c] = "idle"
        /\ admitted_in[c] = "CLOSED"
        /\ state = "HALF_OPEN")
       => (success_count' = success_count /\ state' # "OPEN")]_vars

\* C33: the breaker named nlp_service is the same one for all invocations
\* of call_nlp_service: once failure_threshold NLP calls in a row have failed
\* (the decorator passes 5), every invocation begun fewer than
\* recovery_timeout seconds (the decorator passes 60) after the failure
\* that opened the breaker gives its caller the fallback fragment and
\* issues no request to the NLP service.
C33_SharedBreaker ==
  [][\A c \in Callers :
       (/\ call_seq'[c] # call_seq[c]
        /\ streak >= failure_threshold
        /\ now - open_since < recovery_timeout)
       => (/\ invocations' = invocations
           /\ pc'[c] = "idle"
           /\ nlp_reply'[c] = [text_ml_score |-> 0, model_version |-> "error"]
           /\ breakers' = breakers
           /\ breakers = {"nlp_service"})]_vars

\* an invocation of call_nlp_service by one caller was answered with the
\* fallback fragment, without a request, after the failures of another
\* caller's invocations had opened the breaker
C33_Witness ==
  \E c, d \in Callers :
    /\ c # d
    /\ outcome[c] = "CircuitBreakerOpen"
    /\ nlp_reply[c] = [text_ml_score |-> 0, model_version |-> "error"]
    /\ call_seq[c] = 1
    /\ call_seq[d] = failure_threshold
    /\ invocations = failure_threshold
    /\ streak >= failure_threshold
    /\ state = "OPEN"

(***************************************************************************)
(* Claims about the expiry of rate-limit counters                          *)
(***************************************************************************)
\* C34: a rate-limit counter key that exists, and that no request is about
\* to set the expiry of (no request of the key is between its INCR and its
\* EXPIRE), has an expiry; and a request rejected with 429 arrived less
\* than one window length after the first request counted by its key, so
\* that an identity at its limit is admitted again a window length later.
C34_CountersExpire ==
  /\ \A k \in Scopes :
       (/\ redis_val[k] > 0
        /\ \A r \in Requests : ~(req_pc[r] = "expire" /\ req_scope[r] = k))
       => redis_ttl[k] # NoTtl
  /\ \A r \in Requests :
       req_pc[r] = "rejected"
       => req_at[r] - req_first[r] < ExpirySeconds(req_scope[r])

\* C35: the expiry each of the three wrappers puts on its counter is the
\* window named by the unit of its limit: 60 s per minute, 3600 s per hour,
\* 86400 s per day, for the address, credential and tenant scopes alike.
C35_WindowIsLimitUnit ==
  /\ \A unit \in {"minute", "hour", "day"} :
       /\ rate_limit_by_ip_window(unit) = UnitSeconds(unit)
       /\ rate_limit_by_key_window(unit) = UnitSeconds(unit)
       /\ rate_limit_by_tenant_window(unit) = UnitSeconds(unit)
  /\ [][\A k \in Scopes :
          redis_ttl'[k] > redis_ttl[k]
          => redis_ttl'[k] = UnitSeconds(LimitUnit(k))]_vars

\* the part of C35 that holds: with the limits the wrappers are configured
\* with (per minute by address, per hour by credential, per day by tenant)
\* every expiry that is set is the window of the limit's unit
C35_ConfiguredWindows ==
  [][\A k \in Scopes :
       redis_ttl'[k] > redis_ttl[k]
       => redis_ttl'[k] = UnitSeconds(LimitUnit(k))]_vars

(***************************************************************************)
(* Claims about the score process_email categorises with                   *)
(***************************************************************************)
\* C31: the risk score process_email hands to persist_decision equals the
\* score calculate_risk computed from the attempt's fragments, on the 0-100
\* scale of the thresholds; and a message whose engine verdict is MALICIOUS
\* is categorised HOT when the default thresholds (40, 75) apply.
C31_ScoreIsEngineScore ==
  [][\A t \in pd_queue' \ pd_queue :
       /\ t.risk_score = pe_risk_eval'[t.email_id].score
       /\ (/\ pe_risk_eval'[t.email_id].verdict = "MALICIOUS"
           /\ cold_threshold[t.email_id] = 40
           /\ warm_threshold[t.email_id] = 75)
          => t.category = "HOT"]_vars

(***************************************************************************)
(* Claims about what analyze does with the histories                       *)
(***************************************************************************)
\* C36: every message analyze processes adds exactly one sample, the
\* message's value, to the history of each feature, whichever detector (if
\* any) fires for the message.
C36_OneSamplePerMessage ==
  [][total_analyzed' # total_analyzed
     => \A f \in Features :
          feature_history'[f] =
            deque_append(feature_history[f], extract(an_email')[f],
                         window_size)]_vars

\* the part of C36 that holds: a message for which the pattern detector has
\* no finding and the statistical detector does not raise adds one sample
\* to each history
C36_SampleUnlessPattern ==
  [][(/\ total_analyzed' # total_analyzed
      /\ an_pattern' = NoFinding
      /\ ~IsRaised(an_statistical'))
     => \A f \in Features :
          feature_history'[f] =
            deque_append(feature_history[f], extract(an_email')[f],
                         window_size)]_vars

\* C37: when the pattern and the statistical detector have no finding for a
\* message and detect_sender_anomaly has one for its sender (tracked history
\* with a mean risk below 30, current risk above 70), analyze returns that
\* sender_behavior_change finding.
C37_SenderBehaviorChange ==
  [][(/\ total_analyzed' # total_analyzed
      /\ an_pattern' = NoFinding
      /\ an_statistical' = NoFinding
      /\ IsFinding(detect_sender_anomaly(
                     sender_history[DictGet(an_email', "sender", "unknown")],
                     DictGet(an_email', "risk_score", 0))))
     => (/\ IsFinding(an_result')
         /\ an_result'.anomaly_type = "sender_behavior_change")]_vars

Init == CB_Init /\ RL_Init /\ Pipe_Init /\ Risk_Idle /\ Anomaly_Idle

SpecCB == Init /\ [][CB_Next /\ UNCHANGED <<rlVars, pipeVars, riskVars, anVars>>]_vars

SpecRL == Init /\ [][RL_Next /\ UNCHANGED <<cbVars, pipeVars, riskVars, anVars>>]_vars

SpecPipe == Init /\ [][Pipe_Next /\ UNCHANGED <<cbVars, rlVars, riskVars, anVars>>]_vars

SpecIngest == Init /\ [][Ingest_Next /\ UNCHANGED <<cbVars, rlVars, riskVars, anVars>>]_vars

\* a message's enrichment results ready to be scored
Risk_Init == CB_Init /\ RL_Init /\ Pipe_Init /\ Risk_Inputs /\ Anomaly_Idle

SpecRisk == Risk_Init /\ [][Risk_Next /\ UNCHANGED <<cbVars, rlVars, pipeVars, anVars>>]_vars

\* an anomaly engine that has analysed the messages of some baseline
Anomaly_Init == CB_Init /\ RL_Init /\ Pipe_Init /\ Risk_Idle /\ Anomaly_Baselines

SpecAnomaly == Anomaly_Init /\ [][Anomaly_Next /\ UNCHANGED <<cbVars, rlVars, pipeVars, riskVars>>]_vars

====
